---- MODULE Spec2Model ----
(***************************************************************************)
(* Model of the LazyToCode workflow core: WorkflowState / PhaseState       *)
(* (src/utils/workflow_state.py) and WorkflowOrchestrator                  *)
(* (src/orchestrator.py).                                                  *)
(*                                                                         *)
(* The specifications share the variables:                                 *)
(*   Spec      - one run of WorkflowOrchestrator.execute_workflow, cut at  *)
(*               the points where the coroutine can be suspended or where  *)
(*               a loop head is reached;                                   *)
(*   SpecState - arbitrary sequences of start_phase / complete_phase       *)
(*               calls on a WorkflowState that holds a plan;               *)
(*   SpecDeep  - one run of                                                *)
(*               DeepPlanningManager.execute_deep_planning_cycle           *)
(*               (src/utils/deep_planner.py), cut at the awaited calls of  *)
(*               the planner and of the plan reviewer.                     *)
(*   SpecParse - PlannerAgent._parse_and_validate_plan on one response     *)
(*               (src/agents/planner_agent.py);                            *)
(*   SpecRepeat - the run of Spec on plans that may repeat a phase id;     *)
(*   SpecInteractive - the run of Spec with the interactive plan review;   *)
(*   SpecReview - one call of ReviewerAgent._perform_phase_review          *)
(*               (src/agents/reviewer_agent.py).                           *)
(* A specification leaves the variables of the other components unchanged. *)
(*                                                                         *)
(* Strings that the code only stores and compares are TLA+ strings.        *)
(* Phase identifiers are compared with < by sorted(), so they are          *)
(* sequences of characters: the identifier "phase_<digits>" is the         *)
(* sequence of its digits (the common prefix does not change the order).   *)
(* Feedback texts are sequences of tokens so that a concatenation differs  *)
(* from each of its parts.                                                 *)
(***************************************************************************)
EXTENDS Integers, Sequences, FiniteSets, TLC

VARIABLES
    \* ---- WorkflowState ----
    max_attempts,           \* WorkflowState.max_attempts / orchestrator.max_attempts
    status,                 \* WorkflowState.status
    project_plan,           \* WorkflowState.project_plan (NoPlan or the phase ids in order)
    phases,                 \* WorkflowState.phases: phase_id -> PhaseState
    current_phase_id,       \* WorkflowState.current_phase_id
    completed_phases,       \* WorkflowState.completed_phases
    total_attempts,         \* WorkflowState.total_attempts
    total_errors,           \* WorkflowState.total_errors
    total_files_generated,  \* WorkflowState.total_files_generated
    \* ---- WorkflowOrchestrator ----
    agents,                 \* names of the registered agents
    is_running,
    should_stop,
    phase_feedback,         \* self._phase_feedback: phase_id -> feedback
    \* ---- position of the execute_workflow coroutine ----
    pc,                     \* where the run stands
    phase_idx,              \* index of the for loop of _execute_project_phases
    attempt,                \* loop variable of _execute_single_phase
    overall_success,        \* local of _execute_project_phases
    result,                 \* value returned by execute_workflow
    \* ---- observation of the collaborators ----
    writer_calls,           \* phase_id -> number of writer.handle_message calls
    reviewer_calls,         \* phase_id -> number of review_phase_completion calls
    review_log,             \* phase_id -> outcome of each failed attempt of a phase
                            \* that has not passed review (dropped when it passes)
    passed_at,              \* phase_id -> attempt whose review passed, 0 when none did
    start_log,              \* phase ids in the order of the start_phase calls
    phase_returns,          \* phase_id -> value returned by _execute_single_phase
    last_failure,           \* why the attempt that just ended failed, None otherwise
    \* ---- DeepPlanningManager ----
    max_iterations,         \* DeepPlanningManager.max_iterations
    convergence_threshold,  \* DeepPlanningManager.convergence_threshold (tenths)
    current_iteration,      \* DeepPlanningManager.current_iteration
    plan_history,           \* plans in the order they were obtained
    review_history,         \* [iteration, plan, score] of each successful review
    current_plan,           \* locals of execute_deep_planning_cycle
    best_plan,
    best_score,
    previous_score,
    current_score,
    review_feedback,        \* the review of the current iteration
    convergence_result,     \* type of the last _check_convergence result, None before
    deep_pc,                \* where the cycle stands
    deep_result,            \* value returned by execute_deep_planning_cycle
    improve_calls,          \* number of regenerate_plan_with_feedback calls
    \* ---- PlannerAgent._parse_and_validate_plan ----
    plan_response,          \* the text of the model response, as a sequence of tokens
    json_content,           \* value of _extract_json_from_response
    parsed_plan,            \* value of json.loads
    plan_dict,              \* the plan after _validate_plan_structure
    parse_error,            \* the ValueError raised, None when none was
    parse_pc,               \* where the parsing stands
    \* ---- WorkflowOrchestrator._interactive_plan_review ----
    interactive_mode,       \* WorkflowOrchestrator.interactive_mode
    original_plan,          \* the argument plan_dict: the plan the Planner returned
    reviewed_plan,          \* the local current_plan
    review_end,             \* how the review ended, None while it has not
    modifications,          \* number of modify commands handled
    \* ---- ReviewerAgent._perform_phase_review ----
    files_to_create,        \* phase_details["files_to_create"]
    project_files,          \* the file names of the bundle under review
    success_criteria,       \* phase_details["success_criteria"]
    criterion_idx,          \* index of the loop over the criteria
    review_results,         \* the local review_results
    review_success,         \* the local overall_success
    evaluated,              \* indices of the criteria evaluated so far, in order
    last_evaluation,        \* what the model client did in the last evaluation
    phase_review_result,    \* value returned by _perform_phase_review
    phase_review_pc         \* where the review stands

run_vars == <<max_attempts, status, project_plan, phases, current_phase_id,
              completed_phases, total_attempts, total_errors, total_files_generated,
              agents, is_running, should_stop, phase_feedback,
              pc, phase_idx, attempt, overall_success, result,
              writer_calls, reviewer_calls, review_log, passed_at, start_log,
              phase_returns, last_failure>>
deep_vars == <<max_iterations, convergence_threshold, current_iteration,
               plan_history, review_history, current_plan, best_plan, best_score,
               previous_score, current_score, review_feedback, convergence_result, deep_pc,
               deep_result, improve_calls>>
parse_vars == <<plan_response, json_content, parsed_plan, plan_dict, parse_error,
                parse_pc>>
interactive_vars == <<interactive_mode, original_plan, reviewed_plan, review_end,
                      modifications>>
phase_review_vars == <<files_to_create, project_files, success_criteria,
                       criterion_idx, review_results, review_success, evaluated,
                       last_evaluation, phase_review_result, phase_review_pc>>
\* the variables that a run of the orchestrator does not touch
aux_vars == <<deep_vars, parse_vars, interactive_vars, phase_review_vars>>
\* the variables that a deep-planning cycle does not touch
not_deep_vars == <<run_vars, parse_vars, interactive_vars, phase_review_vars>>
\* the variables that the parsing of a plan does not touch
not_parse_vars == <<run_vars, deep_vars, interactive_vars, phase_review_vars>>
\* the variables that the interactive review of a plan does not touch
not_interactive_vars == <<deep_vars, parse_vars, phase_review_vars>>
\* the variables that the review of a phase does not touch
not_phase_review_vars == <<run_vars, deep_vars, parse_vars, interactive_vars>>
vars == <<run_vars, aux_vars>>

(***************************************************************************)
(* Bounds                                                                  *)
(***************************************************************************)
\* largest max_attempts (--retry-attempts) tried; the option is an unchecked int
MaxAttemptsBound == 3
\* longest plan tried
MaxPhases == 2
\* longest completed_phases list tried when complete_phase is called freely
MaxCompleted == 3
\* largest total_attempts tried: plan length times max_attempts
MaxTotalAttempts == 6

\* "phase_1", "phase_2", "phase_10" (planner prompt: "phase_id": "phase_1")
PhaseIds == {<<1>>, <<2>>, <<1, 0>>}
\* an identifier that no plan contains
UnknownPhase == <<9>>

FileNames == {"a.txt", "b.txt"}
\* texts of the feedback a failed review may return
Feedbacks == {"f1"}
\* messages of exceptions raised by a collaborator
ErrorMessages == {"boom"}
AgentNames == {"planner", "writer", "reviewer", "tester", "fixing"}

None == "None"
\* current_phase_id before any phase was started
NoPhase == <<>>

(***************************************************************************)
(* Python string order, as used by sorted(..., key=lambda x: x[0])         *)
(***************************************************************************)
RECURSIVE StrLess(_, _)
StrLess(a, b) ==
    IF a = <<>> THEN b # <<>>
    ELSE IF b = <<>> THEN FALSE
    ELSE IF Head(a) < Head(b) THEN TRUE
    ELSE IF Head(a) > Head(b) THEN FALSE
    ELSE StrLess(Tail(a), Tail(b))

RECURSIVE sorted(_)
sorted(S) ==
    IF S = {} THEN <<>>
    ELSE LET m == CHOOSE x \in S : \A y \in S \ {x} : StrLess(x, y)
         IN  <<m>> \o sorted(S \ {m})

Range(s) == {s[i] : i \in 1..Len(s)}

(***************************************************************************)
(* PhaseState and WorkflowState                                            *)
(***************************************************************************)
NoFiles == [is_none |-> TRUE, files |-> <<>>]
NoPlan == [is_none |-> TRUE, phases |-> <<>>]

\* a PhaseState that is created with one attempt already counted
PhaseState_one_attempt(max) ==
    [status |-> "pending", attempt_count |-> 1, max_attempts |-> max,
     start_time |-> None, generated_files |-> NoFiles, errors |-> <<>>]

\* start_time is None or holds a timestamp; the value of the clock is not kept
PhaseState(max) ==
    [status |-> "pending", attempt_count |-> 0, max_attempts |-> max,
     start_time |-> None, generated_files |-> NoFiles, errors |-> <<>>]

can_retry(ps) == ps.attempt_count < ps.max_attempts /\ ps.status = "failed"

\* start_phase without the retry budget: any FAILED phase may be started again
start_phase_ok_any_failed(ph, p) ==
    /\ p \in DOMAIN ph
    /\ ph[p].status \in {"pending", "failed"}

\* does start_phase(p) return True
start_phase_ok(ph, p) ==
    /\ p \in DOMAIN ph
    /\ (ph[p].status # "pending" => can_retry(ph[p]))

\* start_phase that never uses the status RETRYING
start_phase_always_in_progress(p) ==
    IF start_phase_ok(phases, p)
    THEN /\ phases' = [phases EXCEPT ![p] =
                [@ EXCEPT !.status = "in_progress",
                          !.attempt_count = @ + 1,
                          !.start_time = "set"]]
         /\ current_phase_id' = p
         /\ total_attempts' = total_attempts + 1
    ELSE UNCHANGED <<phases, current_phase_id, total_attempts>>

\* WorkflowState.start_phase
start_phase(p) ==
    IF start_phase_ok(phases, p)
    THEN /\ phases' = [phases EXCEPT ![p] =
                [@ EXCEPT !.status = IF @ = "pending" THEN "in_progress" ELSE "retrying",
                          !.attempt_count = @ + 1,
                          !.start_time = "set"]]
         /\ current_phase_id' = p
         /\ total_attempts' = total_attempts + 1
    ELSE UNCHANGED <<phases, current_phase_id, total_attempts>>

\* complete_phase that ignores its success argument
complete_phase_on_always_failed(ph, p, success) ==
    IF p \notin DOMAIN ph THEN ph
    ELSE [ph EXCEPT ![p].status = "failed"]

\* WorkflowState.complete_phase(p, success), called without files or test results
complete_phase_on(ph, p, success) ==
    IF p \notin DOMAIN ph THEN ph
    ELSE [ph EXCEPT ![p].status = IF success THEN "completed" ELSE "failed"]

completed_after(cp, ph, p, success) ==
    IF p \in DOMAIN ph /\ success THEN Append(cp, p) ELSE cp

\* WorkflowState.set_project_plan on the phase ids of the plan, in order
set_project_plan_phases(ph, ids, max) ==
    [p \in (DOMAIN ph) \cup Range(ids) |->
        IF p \in Range(ids) THEN PhaseState(max) ELSE ph[p]]

get_failed_phases(ph) ==
    {p \in DOMAIN ph : ph[p].status = "failed" /\ ~can_retry(ph[p])}

RECURSIVE SumAttempts(_, _)
SumAttempts(ph, S) ==
    IF S = {} THEN 0
    ELSE LET p == CHOOSE x \in S : TRUE
         IN  ph[p].attempt_count + SumAttempts(ph, S \ {p})

\* WorkflowState.get_workflow_summary (the fields the run's result is read for)
get_workflow_summary(st, ph, cp, cur, ta, te, tf) ==
    [status |-> st,
     phases_total |-> Cardinality(DOMAIN ph),
     phases_completed |-> Len(cp),
     phases_failed |-> Cardinality(get_failed_phases(ph)),
     current |-> cur,
     details |-> [p \in DOMAIN ph |->
                    [status |-> ph[p].status, attempts |-> ph[p].attempt_count,
                     files_generated |-> Len(ph[p].generated_files.files)]],
     total_attempts |-> ta,
     total_errors |-> te,
     files_generated |-> tf,
     phase_attempts |-> SumAttempts(ph, DOMAIN ph)]

\* WorkflowState.is_workflow_complete
is_workflow_complete(plan, cp) ==
    IF plan.is_none THEN FALSE
    ELSE Len(cp) = Len(plan.phases)

\* WorkflowState.progress_percentage, integer part of the float
progress_percentage(plan, cp) ==
    IF plan.is_none THEN 0
    ELSE IF Len(plan.phases) = 0 THEN 100
    ELSE (Len(cp) * 100) \div Len(plan.phases)

(***************************************************************************)
(* Orchestrator helpers                                                    *)
(***************************************************************************)
get_required_agents == {"planner", "writer", "reviewer"}

validate_agents(registered) == get_required_agents \ registered = {}

\* the file names the Writer returns for phase p: the files the plan declares for it
PhaseFiles(p) ==
    IF p = <<1>> THEN <<"a.txt">>
    ELSE IF p = <<2>> THEN <<"a.txt", "b.txt">>
    ELSE <<"b.txt", "a.txt">>

\* content of the files the Writer produced for phase p in attempt a
Content(p, a) == <<p, a>>

\* the feedback text the Reviewer returns for a failed review of attempt a
\* (ReviewerAgent._generate_feedback names the attempt in its header)
ReviewFeedback(text, a) == <<text, a>>

\* a cancellation recorded as a failure
cancel_workflow_as_failed == "failed"

\* WorkflowState.cancel_workflow
cancel_workflow == "cancelled"

\* WorkflowState.complete_workflow
complete_workflow(success) == IF success THEN "completed" ELSE "failed"

\* the attempt loop with an off-by-one upper end: range(1, max_attempts + 2)
attempt_loop_done_one_more(a, max, stop) == a > max + 1 \/ stop

\* for attempt in range(1, self.max_attempts + 1): if self.should_stop: break
attempt_loop_done(a, max, stop) == a > max \/ stop

\* the ProjectFiles object built from a Writer response
ProjectFiles(fl, p, a) ==
    [is_none |-> FALSE,
     files |-> [i \in 1..Len(fl) |-> [filename |-> fl[i], content |-> Content(p, a)]]]

\* files_dict[filename] = entry on an insertion-ordered dict
DictPut(d, e) ==
    IF \E i \in 1..Len(d) : d[i].filename = e.filename
    THEN [i \in 1..Len(d) |-> IF d[i].filename = e.filename THEN e ELSE d[i]]
    ELSE Append(d, e)

RECURSIVE CollectFiles(_, _, _)
CollectFiles(files, pid, d) ==
    IF files = <<>> THEN d
    ELSE CollectFiles(Tail(files), pid,
            DictPut(d, [filename |-> Head(files).filename,
                        content |-> Head(files).content,
                        phase_id |-> pid]))

RECURSIVE CollectPhases(_, _, _)
CollectPhases(order, ph, d) ==
    IF order = <<>> THEN d
    ELSE CollectPhases(Tail(order), ph,
            IF ph[Head(order)].generated_files.is_none THEN d
            ELSE CollectFiles(ph[Head(order)].generated_files.files, Head(order), d))

\* WorkflowOrchestrator._collect_generated_files
collect_generated_files(ph) == CollectPhases(sorted(DOMAIN ph), ph, <<>>)

\* a store that accumulates the feedback of a phase instead of overwriting it
store_feedback_accumulating(store, p, feedback) ==
    [q \in (DOMAIN store) \cup {p} |->
        IF q = p THEN (IF p \in DOMAIN store THEN store[p] \o feedback ELSE feedback)
        ELSE store[q]]

\* WorkflowOrchestrator._store_feedback_for_retry
store_feedback_for_retry(store, p, feedback) ==
    [q \in (DOMAIN store) \cup {p} |-> IF q = p THEN feedback ELSE store[q]]

\* a policy that goes on with the next phase after a failure
should_continue_always(p) == TRUE

\* WorkflowOrchestrator._should_continue_after_failure
should_continue_after_failure(p) == FALSE

\* the feedback _execute_review_step returns when the Reviewer raised e
ReviewErrorFeedback(e) == <<"Review failed due to error: ", e>>

\* the phases taken from the end of the plan
CurrentPhaseReversed == project_plan.phases[Len(project_plan.phases) + 1 - phase_idx]

\* the phase _execute_project_phases is at
CurrentPhase == project_plan.phases[phase_idx]

\* a timeout that can still fire after the run has returned
SuspensionPointsAndDone == {"planning", "writing", "reviewing", "done"}

\* the awaited collaborator calls: planner.handle_message, writer.handle_message,
\* reviewer.review_phase_completion
SuspensionPoints == {"planning", "writing", "reviewing"}

\* plans: sequences of distinct phase ids (spec.md section 3: phase_id is unique in a plan)
Plans ==
    {s \in UNION {[1..n -> PhaseIds] : n \in 0..MaxPhases} :
        \A i, j \in 1..Len(s) : i # j => s[i] # s[j]}

\* the plans tried with a given max_attempts
PlansFor(max) == {s \in Plans : Len(s) * max <= MaxTotalAttempts}

EmptyMap == [p \in {} |-> 0]
NoResult == [none |-> TRUE]

(***************************************************************************)
(* DeepPlanningManager (src/utils/deep_planner.py)                         *)
(* Scores are in tenths: 8.0 is 80, 0.5 is 5.  A plan is the sequence      *)
(* holding the number of the iteration that produced it; the empty         *)
(* sequence stands for None.                                               *)
(***************************************************************************)
\* largest max_iterations tried
MaxIterations == 3
\* scores a review may give (0 to 10)
Scores == {0, 60, 80, 85, 90}
\* 8.0 is the value the orchestrator passes; 9.5 is above every score tried
Thresholds == {80, 95}
Recommendations == {"approve", "needs_revision"}
\* numbers of critical and of high issues a review may list
CriticalCounts == {0, 1}
HighCounts == {0, 1, 3}
min_score_improvement == 5
\* the literal 8.5 of the issues_resolved rule
issues_resolved_score == 85

InitialPlan == <<0>>
NoPlanDict == <<>>
NoReview == [none |-> TRUE]

\* the review_feedback dictionaries: score, recommendation and issue counts
ReviewFeedbacks ==
    [score : Scores, recommendation : Recommendations,
     critical_issues : CriticalCounts, high_issues : HighCounts]

assess_plan_quality_any_high_issue(rf) ==
    [score |-> rf.score,
     action |-> IF rf.critical_issues > 0
                THEN "needs_major_revision"
                ELSE IF rf.high_issues > 0
                THEN (IF rf.recommendation = "approve"
                      THEN "needs_major_revision"
                      ELSE rf.recommendation)
                ELSE rf.recommendation,
     critical_issues |-> rf.critical_issues,
     high_issues |-> rf.high_issues]

\* _assess_plan_quality: score, action and the issue counts
assess_plan_quality(rf) ==
    [score |-> rf.score,
     action |-> IF rf.critical_issues > 0
                THEN "needs_major_revision"
                ELSE IF rf.high_issues > 2
                THEN (IF rf.recommendation = "approve"
                      THEN "needs_major_revision"
                      ELSE rf.recommendation)
                ELSE rf.recommendation,
     critical_issues |-> rf.critical_issues,
     high_issues |-> rf.high_issues]

check_convergence_issues_first(qa, cur, prev, iter, threshold) ==
    IF qa.critical_issues = 0 /\ qa.high_issues = 0 /\ cur >= issues_resolved_score
    THEN "issues_resolved"
    ELSE IF cur >= threshold THEN "quality_threshold"
    ELSE IF qa.action = "approve" THEN "reviewer_approval"
    ELSE IF iter > 1 /\ cur - prev < min_score_improvement THEN "minimal_improvement"
    ELSE "continue"

check_convergence_strict_threshold(qa, cur, prev, iter, threshold) ==
    IF cur > threshold THEN "quality_threshold"
    ELSE IF qa.action = "approve" THEN "reviewer_approval"
    ELSE IF iter > 1 /\ cur - prev < min_score_improvement THEN "minimal_improvement"
    ELSE IF qa.critical_issues = 0 /\ qa.high_issues = 0 /\ cur >= issues_resolved_score
    THEN "issues_resolved"
    ELSE "continue"

\* _check_convergence: the type of the result ("continue" when not converged)
check_convergence(qa, cur, prev, iter, threshold) ==
    IF cur >= threshold THEN "quality_threshold"
    ELSE IF qa.action = "approve" THEN "reviewer_approval"
    ELSE IF iter > 1 /\ cur - prev < min_score_improvement THEN "minimal_improvement"
    ELSE IF qa.critical_issues = 0 /\ qa.high_issues = 0 /\ cur >= issues_resolved_score
    THEN "issues_resolved"
    ELSE "continue"

is_better_always(cur, best) == TRUE

\* "if current_score > best_score" of the reflection loop
is_better(cur, best) == cur > best

improvement_failure_escapes == FALSE

\* the try/except around regenerate_plan_with_feedback: a failed improvement
\* leaves the loop by break
improvement_failure_is_caught == TRUE

\* the result built after the loop
deep_success(bp, bs, iter, conv) ==
    [success |-> TRUE, final_plan |-> bp, best_score |-> bs,
     total_iterations |-> iter, convergence_info |-> conv]

\* the result built by the outer exception handler
deep_failure(ph) ==
    [success |-> FALSE, error |-> "error",
     final_plan |-> IF ph = <<>> THEN NoPlanDict ELSE ph[Len(ph)]]

(***************************************************************************)
(* PlannerAgent._parse_and_validate_plan (src/agents/planner_agent.py)     *)
(* A response is a sequence of tokens: a refusal phrase in some casing, a  *)
(* code fence (fence_json opens a json block, fence is the plain one), a   *)
(* brace (lbrace, rbrace), the members of a JSON object, or other text.    *)
(* A dictionary is a function from its keys.                               *)
(***************************************************************************)
\* longest response tried, in tokens
MaxResponseLen == 3
\* largest number of phases of a parsed plan tried
MaxPlanPhases == 2

refusal_indicators ==
    {"I'm sorry", "I cannot", "I don't have", "I'm unable",
     "I can't", "Unfortunately", "I apologize", "I'm not able"}

\* the same phrases in another casing
RecasedPhrases == {"i'm sorry", "UNFORTUNATELY"}

ResponseTokens ==
    refusal_indicators \cup RecasedPhrases \cup {"fence_json", "fence", "lbrace", "rbrace", "members", "text"}

\* str.lower on a token
lower(tok) ==
    CASE tok = "I'm sorry" -> "i'm sorry"
      [] tok = "I cannot" -> "i cannot"
      [] tok = "I don't have" -> "i don't have"
      [] tok = "I'm unable" -> "i'm unable"
      [] tok = "I can't" -> "i can't"
      [] tok = "Unfortunately" -> "unfortunately"
      [] tok = "I apologize" -> "i apologize"
      [] tok = "I'm not able" -> "i'm not able"
      [] tok = "UNFORTUNATELY" -> "unfortunately"
      [] OTHER -> tok

is_refusal_case_sensitive(response) ==
    \E indicator \in refusal_indicators :
        \E i \in 1..Len(response) : response[i] = indicator

\* any(indicator.lower() in plan_response.lower() for indicator in refusal_indicators)
is_refusal(response) ==
    \E indicator \in refusal_indicators :
        \E i \in 1..Len(response) : lower(response[i]) = lower(indicator)

\* str.find from position from: the first index of a token of S, 0 when none
Find(response, S, from) ==
    IF \E i \in from..Len(response) : response[i] \in S
    THEN CHOOSE i \in from..Len(response) :
            /\ response[i] \in S
            /\ \A j \in from..(i - 1) : response[j] \notin S
    ELSE 0

\* str.rfind: the last index of a token of S, 0 when none
RFind(response, S) ==
    IF \E i \in 1..Len(response) : response[i] \in S
    THEN CHOOSE i \in 1..Len(response) :
            /\ response[i] \in S
            /\ \A j \in (i + 1)..Len(response) : response[j] \notin S
    ELSE 0

\* the end of _extract_json_from_response: first opening brace to last
\* closing brace, or everything
BetweenBraces(response) ==
    LET start == Find(response, {"lbrace"}, 1)
        end == RFind(response, {"rbrace"})
    IN  IF start # 0 /\ end # 0 /\ end > start
        THEN SubSeq(response, start, end)
        ELSE response

\* _extract_json_from_response; the text of a plain fence is also found in
\* the fence that opens a json block
extract_json_from_response(response) ==
    LET opening == IF Find(response, {"fence_json"}, 1) # 0
                   THEN Find(response, {"fence_json"}, 1)
                   ELSE Find(response, {"fence"}, 1)
        closing == Find(response, {"fence", "fence_json"}, opening + 1)
    IN  IF opening # 0 /\ closing # 0
        THEN SubSeq(response, opening + 1, closing - 1)
        ELSE BetweenBraces(response)

\* json_content.strip().startswith('{')
starts_with_brace(content) == content # <<>> /\ content[1] = "lbrace"

\* json.loads succeeds on an object: braces around members and string text
json_loads_ok(content) ==
    /\ Len(content) >= 2
    /\ content[1] = "lbrace"
    /\ content[Len(content)] = "rbrace"
    /\ \A i \in 2..(Len(content) - 1) :
          content[i] \in {"members"} \cup refusal_indicators \cup RecasedPhrases

required_keys == {"project_info", "phases", "overall_structure"}
required_project_keys == {"name", "type", "description", "language"}
required_phase_keys == {"phase_id", "name", "description"}

\* a key with its value, or nothing when the key is absent
Entry(key, values) ==
    IF values = {} THEN EmptyMap ELSE key :> (CHOOSE v \in values : TRUE)

\* the phase dictionaries a response may hold
PhaseDicts ==
    {("phase_id" :> id) @@ Entry("name", name) @@ ("description" :> "d")
        @@ Entry("files", f) @@ Entry("files_to_create", c) :
        id \in {"phase_1", "phase_2"}, name \in {{}, {"n"}},
        f \in {{}, {<<"a.txt">>}}, c \in {{}, {<<"b.txt">>}}}

PhaseLists == UNION {[1..n -> PhaseDicts] : n \in 0..MaxPlanPhases}

\* the plan dictionaries a response may hold: complete at the top with any
\* phases (the value of "phases" is always a list), or incomplete at the top
PlanDicts ==
    {("project_info" :> required_project_keys) @@ ("overall_structure" :> "s")
        @@ ("phases" :> phs) : phs \in PhaseLists}
    \cup {("project_info" :> required_project_keys) @@ ("phases" :> <<>>),
          ("project_info" :> {"name", "type"}) @@ ("overall_structure" :> "s")
              @@ ("phases" :> <<>>)}

normalize_phase_overwrites(phase) ==
    IF "files" \in DOMAIN phase
    THEN ("files_to_create" :> phase["files"]) @@ phase
    ELSE phase

\* the conversion at the end of the phase loop of _validate_plan_structure
normalize_phase(phase) ==
    IF "files" \in DOMAIN phase /\ "files_to_create" \notin DOMAIN phase
    THEN phase @@ ("files_to_create" :> phase["files"])
    ELSE phase

\* a phase that passes the checks of _validate_plan_structure
phase_is_valid(phase) ==
    /\ required_phase_keys \subseteq DOMAIN phase
    /\ "files" \in DOMAIN phase \/ "files_to_create" \in DOMAIN phase

\* _validate_plan_structure: the error raised (None when none) and the plan
validate_plan_structure(plan) ==
    IF ~(required_keys \subseteq DOMAIN plan)
    THEN [error |-> "Plan missing required key", plan |-> plan]
    ELSE IF ~(required_project_keys \subseteq plan["project_info"])
    THEN [error |-> "Project info missing required key", plan |-> plan]
    ELSE IF Len(plan["phases"]) = 0
    THEN [error |-> "Plan must have at least one phase", plan |-> plan]
    ELSE IF \E i \in 1..Len(plan["phases"]) : ~phase_is_valid(plan["phases"][i])
    THEN [error |-> "Phase missing required key", plan |-> plan]
    ELSE [error |-> None,
          plan |-> ("phases" :> [i \in 1..Len(plan["phases"]) |->
                                    normalize_phase(plan["phases"][i])]) @@ plan]

\* no response was parsed
ParseNotStarted ==
    /\ plan_response = <<>>
    /\ json_content = <<>>
    /\ parsed_plan = EmptyMap
    /\ plan_dict = EmptyMap
    /\ parse_error = None
    /\ parse_pc = "idle"

\* a manager on which execute_deep_planning_cycle was not called
DeepNotStarted ==
    /\ current_iteration = 0
    /\ plan_history = <<>>
    /\ review_history = <<>>
    /\ current_plan = NoPlanDict
    /\ best_plan = NoPlanDict
    /\ best_score = 0
    /\ previous_score = 0
    /\ current_score = 0
    /\ review_feedback = NoReview
    /\ convergence_result = None
    /\ deep_pc = "idle"
    /\ deep_result = NoResult
    /\ improve_calls = 0

\* no criterion was evaluated
NoEvaluation == [kind |-> "none", text |-> <<>>]

\* no phase was reviewed
PhaseReviewNotStarted ==
    /\ files_to_create = <<>>
    /\ project_files = {}
    /\ success_criteria = <<>>
    /\ criterion_idx = 0
    /\ review_results = <<>>
    /\ review_success = TRUE
    /\ evaluated = <<>>
    /\ last_evaluation = NoEvaluation
    /\ phase_review_result = NoResult
    /\ phase_review_pc = "idle"

\* no plan was put to the user
ReviewNotStarted ==
    /\ original_plan = <<>>
    /\ reviewed_plan = <<>>
    /\ review_end = None
    /\ modifications = 0

\* the manager the orchestrator constructs: max_iterations=3, convergence_threshold=8.0;
\* interactive_mode defaults to False
AuxInit ==
    /\ max_iterations = 3
    /\ convergence_threshold = 80
    /\ DeepNotStarted
    /\ ParseNotStarted
    /\ interactive_mode = FALSE
    /\ ReviewNotStarted
    /\ PhaseReviewNotStarted

(***************************************************************************)
(* ReviewerAgent._perform_phase_review (src/agents/reviewer_agent.py)      *)
(* The texts that are searched for substrings (the evaluation of a         *)
(* criterion, the message of an exception, the prompt) are sequences of    *)
(* characters.  A criterion is the number of its place in the list.        *)
(***************************************************************************)
\* largest number of success criteria tried
MaxCriteria == 2
\* largest number of required files tried
MaxRequiredFiles == 2

\* str.upper on one character
UpperOf(c) ==
    CASE c = "a" -> "A" [] c = "b" -> "B" [] c = "c" -> "C" [] c = "d" -> "D"
      [] c = "e" -> "E" [] c = "f" -> "F" [] c = "g" -> "G" [] c = "h" -> "H"
      [] c = "i" -> "I" [] c = "j" -> "J" [] c = "k" -> "K" [] c = "l" -> "L"
      [] c = "m" -> "M" [] c = "n" -> "N" [] c = "o" -> "O" [] c = "p" -> "P"
      [] c = "q" -> "Q" [] c = "r" -> "R" [] c = "s" -> "S" [] c = "t" -> "T"
      [] c = "u" -> "U" [] c = "v" -> "V" [] c = "w" -> "W" [] c = "x" -> "X"
      [] c = "y" -> "Y" [] c = "z" -> "Z"
      [] OTHER -> c

\* str.lower on one character
LowerOf(c) ==
    CASE c = "A" -> "a" [] c = "B" -> "b" [] c = "C" -> "c" [] c = "D" -> "d"
      [] c = "E" -> "e" [] c = "F" -> "f" [] c = "G" -> "g" [] c = "H" -> "h"
      [] c = "I" -> "i" [] c = "J" -> "j" [] c = "K" -> "k" [] c = "L" -> "l"
      [] c = "M" -> "m" [] c = "N" -> "n" [] c = "O" -> "o" [] c = "P" -> "p"
      [] c = "Q" -> "q" [] c = "R" -> "r" [] c = "S" -> "s" [] c = "T" -> "t"
      [] c = "U" -> "u" [] c = "V" -> "v" [] c = "W" -> "w" [] c = "X" -> "x"
      [] c = "Y" -> "y" [] c = "Z" -> "z"
      [] OTHER -> c

upper(text) == [i \in 1..Len(text) |-> UpperOf(text[i])]

lower_text(text) == [i \in 1..Len(text) |-> LowerOf(text[i])]

\* the Python test "kw in text"
Contains(text, kw) ==
    \E i \in 1..(Len(text) - Len(kw) + 1) : SubSeq(text, i, i + Len(kw) - 1) = kw

\* "RESULT: PASS"
ResultPass ==
    <<"R", "E", "S", "U", "L", "T", ":", " ", "P", "A", "S", "S">>

\* "RESULT: FAIL"
ResultFail ==
    <<"R", "E", "S", "U", "L", "T", ":", " ", "F", "A", "I", "L">>

\* the words looked for when the evaluation has no RESULT marker
pass_keywords ==
    {<<"P", "A", "S", "S">>,
     <<"S", "A", "T", "I", "S", "F", "I", "E", "D">>,
     <<"M", "E", "T">>,
     <<"S", "U", "C", "C", "E", "S", "S">>}

\* "Model evaluation failed: "
ModelFailedPrefix ==
    <<"M", "o", "d", "e", "l", " ", "e", "v", "a", "l", "u", "a", "t", "i",
      "o", "n", " ", "f", "a", "i", "l", "e", "d", ":", " ">>

\* "Model evaluation failed - no content in response"
NoContentText ==
    <<"M", "o", "d", "e", "l", " ", "e", "v", "a", "l", "u", "a", "t", "i",
      "o", "n", " ", "f", "a", "i", "l", "e", "d", " ", "-", " ", "n", "o",
      " ", "c", "o", "n", "t", "e", "n", "t", " ", "i", "n", " ", "r", "e",
      "s", "p", "o", "n", "s", "e">>

\* "RESULT: PASS - Basic file creation check passed"
BasicPassText ==
    <<"R", "E", "S", "U", "L", "T", ":", " ", "P", "A", "S", "S", " ", "-",
      " ", "B", "a", "s", "i", "c", " ", "f", "i", "l", "e", " ", "c", "r",
      "e", "a", "t", "i", "o", "n", " ", "c", "h", "e", "c", "k", " ", "p",
      "a", "s", "s", "e", "d">>

\* "RESULT: FAIL - Unable to perform detailed evaluation without model"
BasicFailText ==
    <<"R", "E", "S", "U", "L", "T", ":", " ", "F", "A", "I", "L", " ", "-",
      " ", "U", "n", "a", "b", "l", "e", " ", "t", "o", " ", "p", "e", "r",
      "f", "o", "r", "m", " ", "d", "e", "t", "a", "i", "l", "e", "d", " ",
      "e", "v", "a", "l", "u", "a", "t", "i", "o", "n", " ", "w", "i", "t",
      "h", "o", "u", "t", " ", "m", "o", "d", "e", "l">>

\* "files created"
FilesCreated ==
    <<"f", "i", "l", "e", "s", " ", "c", "r", "e", "a", "t", "e", "d">>

\* evaluations a model returns: "RESULT: PASS - ok",
\* "RESULT: FAIL - criterion not met", "result: pass", "looks wrong",
\* "criterion met"
EvaluationTexts ==
    {
    <<"R", "E", "S", "U", "L", "T", ":", " ", "P", "A", "S", "S", " ", "-",
      " ", "o", "k">>,
    <<"R", "E", "S", "U", "L", "T", ":", " ", "F", "A", "I", "L", " ", "-",
      " ", "c", "r", "i", "t", "e", "r", "i", "o", "n", " ", "n", "o", "t",
      " ", "m", "e", "t">>,
    <<"r", "e", "s", "u", "l", "t", ":", " ", "p", "a", "s", "s">>,
    <<"l", "o", "o", "k", "s", " ", "w", "r", "o", "n", "g">>,
    <<"c", "r", "i", "t", "e", "r", "i", "o", "n", " ", "m", "e", "t">>
    }

\* messages of the exceptions a model client raises: "boom", "timeout",
\* "invalid parameter"
ClientErrorTexts ==
    {
    <<"b", "o", "o", "m">>,
    <<"t", "i", "m", "e", "o", "u", "t">>,
    <<"i", "n", "v", "a", "l", "i", "d", " ", "p", "a", "r", "a", "m", "e",
      "t", "e", "r">>
    }

\* prompts seen by the evaluation without a model: "Files created: a.txt",
\* "check the tests"
PromptTexts ==
    {
    <<"F", "i", "l", "e", "s", " ", "c", "r", "e", "a", "t", "e", "d", ":",
      " ", "a", ".", "t", "x", "t">>,
    <<"c", "h", "e", "c", "k", " ", "t", "h", "e", " ", "t", "e", "s", "t",
      "s">>
    }

\* what happens in one _check_success_criterion call: the prompt cannot be
\* built, there is no model client, the client raises, the response has no
\* content, or the response has a content
ModelOutcomes ==
    [kind : {"content"}, text : EvaluationTexts]
        \cup [kind : {"no_content"}, text : {<<>>}]
        \cup [kind : {"raises"}, text : ClientErrorTexts]
        \cup [kind : {"no_client"}, text : PromptTexts]
        \cup [kind : {"prompt_raises"}, text : {<<>>}]

\* ReviewerAgent._basic_text_evaluation
basic_text_evaluation(prompt) ==
    IF Contains(lower_text(prompt), FilesCreated) THEN BasicPassText ELSE BasicFailText

\* ReviewerAgent._evaluate_with_model: the text it returns
evaluate_with_model(outcome) ==
    CASE outcome.kind = "no_client" -> basic_text_evaluation(outcome.text)
      [] outcome.kind = "content" -> outcome.text
      [] outcome.kind = "no_content" -> NoContentText
      [] outcome.kind = "raises" -> ModelFailedPrefix \o outcome.text

\* ReviewerAgent._parse_evaluation_result: the value of passed
parse_evaluation_result(evaluation) ==
    LET evaluation_upper == upper(evaluation)
    IN  IF Contains(evaluation_upper, ResultPass) THEN TRUE
        ELSE IF Contains(evaluation_upper, ResultFail) THEN FALSE
        ELSE \E word \in pass_keywords : Contains(evaluation_upper, word)

\* ReviewerAgent._check_success_criterion: the result dictionary
check_success_criterion(criterion, outcome) ==
    [type |-> "success_criterion",
     criterion |-> criterion,
     passed |-> IF outcome.kind = "prompt_raises" THEN FALSE
                ELSE parse_evaluation_result(evaluate_with_model(outcome))]

\* a file specification is a string or a dictionary with the key "name"
FileSpecs == [kind : {"str", "dict"}, name : FileNames]

FileSpecLists == UNION {[1..n -> FileSpecs] : n \in 0..MaxRequiredFiles}

\* the filename _check_required_files reads from a file specification
filename_of(file_spec) == file_spec.name

\* a file check that passes as soon as one required file is there
check_required_files_any(required_files, generated_filenames) ==
    [type |-> "file_existence",
     passed |-> \/ required_files = <<>>
                \/ \E i \in 1..Len(required_files) :
                      filename_of(required_files[i]) \in generated_filenames,
     issues |-> {filename_of(required_files[i]) : i \in 1..Len(required_files)}
                    \ generated_filenames]

\* ReviewerAgent._check_required_files
check_required_files(required_files, generated_filenames) ==
    LET missing_files ==
            {filename_of(required_files[i]) : i \in 1..Len(required_files)}
                \ generated_filenames
    IN  [type |-> "file_existence",
         passed |-> missing_files = {},
         issues |-> missing_files]

\* a loop over the criteria that stops at the first failure
criteria_loop_done_short_circuit(idx, criteria, success) ==
    idx > Len(criteria) \/ ~success

\* the for loop over success_criteria is over
criteria_loop_done(idx, criteria, success) == idx > Len(criteria)

\* ReviewerAgent._generate_feedback: the issues the text lists
generate_feedback(results) ==
    [critical_issues |-> {i \in 1..Len(results) :
                            ~results[i].passed /\ results[i].type = "file_existence"},
     minor_issues |-> {i \in 1..Len(results) :
                            ~results[i].passed /\ results[i].type = "success_criterion"}]

(***************************************************************************)
(* Initial state: a freshly constructed orchestrator and WorkflowState     *)
(***************************************************************************)
\* everything but max_attempts
OrchestratorInit ==
    /\ status = "idle"
    /\ project_plan = NoPlan
    /\ phases = EmptyMap
    /\ current_phase_id = NoPhase
    /\ completed_phases = <<>>
    /\ total_attempts = 0
    /\ total_errors = 0
    /\ total_files_generated = 0
    /\ agents = {}
    /\ is_running = FALSE
    /\ should_stop = FALSE
    /\ phase_feedback = EmptyMap
    /\ pc = "idle"
    /\ phase_idx = 0
    /\ attempt = 0
    /\ overall_success = TRUE
    /\ result = NoResult
    /\ writer_calls = EmptyMap
    /\ reviewer_calls = EmptyMap
    /\ review_log = EmptyMap
    /\ passed_at = EmptyMap
    /\ start_log = <<>>
    /\ phase_returns = EmptyMap
    /\ last_failure = None

Init ==
    /\ max_attempts \in 0..MaxAttemptsBound
    /\ OrchestratorInit
    /\ AuxInit

ws_vars == <<max_attempts, status, project_plan, phases, current_phase_id,
             completed_phases, total_attempts, total_errors, total_files_generated>>
obs_vars == <<writer_calls, reviewer_calls, review_log, passed_at, start_log,
              phase_returns, last_failure>>
loop_vars == <<phase_idx, attempt, overall_success>>

(***************************************************************************)
(* Actions of the run                                                      *)
(***************************************************************************)
\* WorkflowOrchestrator.register_agent
RegisterAgent(name) ==
    /\ pc = "idle"
    /\ name \notin agents
    /\ agents' = agents \cup {name}
    /\ UNCHANGED aux_vars
    /\ UNCHANGED <<ws_vars, is_running, should_stop, phase_feedback, pc,
                   loop_vars, result, obs_vars>>

\* WorkflowOrchestrator.stop_workflow, called while the run is not executing
StopWorkflow ==
    /\ pc \in {"idle"} \cup SuspensionPoints
    /\ should_stop' = TRUE
    /\ UNCHANGED aux_vars
    /\ UNCHANGED <<ws_vars, agents, is_running, phase_feedback, pc,
                   loop_vars, result, obs_vars>>

\* execute_workflow up to the call of the Planner
ExecuteWorkflow ==
    /\ pc = "idle"
    /\ IF ~validate_agents(agents)
       THEN /\ result' = [success |-> FALSE, error |-> "Missing required agents"]
            /\ pc' = "done"
            /\ UNCHANGED <<status, is_running>>
       ELSE /\ is_running' = TRUE
            /\ status' = "planning"
            /\ pc' = "planning"
            /\ UNCHANGED result
    /\ UNCHANGED aux_vars
    /\ UNCHANGED <<max_attempts, project_plan, phases, current_phase_id,
                   completed_phases, total_attempts, total_errors,
                   total_files_generated, agents, should_stop, phase_feedback,
                   loop_vars, obs_vars>>

\* the Planner answered with a usable plan: _execute_planning_phase returns True
PlannerReturnsPlan(ids) ==
    /\ pc = "planning"
    /\ project_plan' = [is_none |-> FALSE, phases |-> ids]
    /\ phases' = set_project_plan_phases(phases, ids, max_attempts)
    /\ writer_calls' = [p \in Range(ids) |-> 0]
    /\ reviewer_calls' = [p \in Range(ids) |-> 0]
    /\ review_log' = [p \in Range(ids) |-> <<>>]
    /\ passed_at' = [p \in Range(ids) |-> 0]
    /\ phase_returns' = [p \in Range(ids) |-> None]
    /\ overall_success' = TRUE
    /\ phase_idx' = 1
    /\ pc' = "phases"
    /\ UNCHANGED aux_vars
    /\ UNCHANGED <<max_attempts, status, current_phase_id, completed_phases,
                   total_attempts, total_errors, total_files_generated, agents,
                   is_running, should_stop, phase_feedback, attempt, result,
                   start_log, last_failure>>

\* the Planner gave no response, a response of the wrong type, no plan, or raised:
\* _execute_planning_phase returns False and the run ends
PlannerFails(kind) ==
    /\ pc = "planning"
    /\ kind \in {"invalid_response", "no_project_plan", "raised"}
    /\ status' = complete_workflow(FALSE)
    /\ result' = [success |-> FALSE, error |-> "Planning phase failed",
                  summary |-> get_workflow_summary(status', phases, completed_phases,
                                  current_phase_id, total_attempts, total_errors,
                                  total_files_generated)]
    /\ is_running' = FALSE
    /\ pc' = "done"
    /\ UNCHANGED aux_vars
    /\ UNCHANGED <<max_attempts, project_plan, phases, current_phase_id,
                   completed_phases, total_attempts, total_errors,
                   total_files_generated, agents, should_stop, phase_feedback,
                   loop_vars, obs_vars>>

\* head of the for loop of _execute_project_phases, up to the head of the
\* attempt loop of _execute_single_phase
PhaseLoop ==
    /\ pc = "phases"
    /\ IF phase_idx > Len(project_plan.phases) \/ should_stop
       THEN /\ pc' = "finish"
            /\ UNCHANGED attempt
       ELSE /\ attempt' = 1
            /\ pc' = "attempt"
    /\ UNCHANGED aux_vars
    /\ UNCHANGED <<ws_vars, agents, is_running, should_stop, phase_feedback,
                   phase_idx, overall_success, result, obs_vars>>

\* head of the attempt loop of _execute_single_phase: either the loop is over
\* and the phase has failed, or start_phase and the call of the Writer
AttemptLoop ==
    /\ pc = "attempt"
    /\ IF attempt_loop_done(attempt, max_attempts, should_stop)
       THEN /\ phase_returns' = [phase_returns EXCEPT ![CurrentPhase] = "False"]
            /\ overall_success' = FALSE
            /\ pc' = IF should_continue_after_failure(CurrentPhase)
                     THEN "phases" ELSE "finish"
            /\ phase_idx' = IF should_continue_after_failure(CurrentPhase)
                            THEN phase_idx + 1 ELSE phase_idx
            /\ UNCHANGED <<phases, current_phase_id, total_attempts, status,
                           writer_calls, start_log>>
       ELSE /\ start_phase(CurrentPhase)
            /\ start_log' = Append(start_log, CurrentPhase)
            /\ status' = "writing"
            /\ writer_calls' = [writer_calls EXCEPT ![CurrentPhase] = @ + 1]
            /\ pc' = "writing"
            /\ UNCHANGED <<phase_returns, overall_success, phase_idx>>
    /\ last_failure' = None
    /\ UNCHANGED aux_vars
    /\ UNCHANGED <<max_attempts, project_plan, completed_phases, total_errors,
                   total_files_generated, agents, is_running, should_stop,
                   phase_feedback, attempt, result, reviewer_calls, review_log,
                   passed_at>>

\* the Writer returned project files: set_phase_files, then the call of the Reviewer
WriterReturnsFiles ==
    /\ pc = "writing"
    /\ phases' = [phases EXCEPT ![CurrentPhase].generated_files =
                      ProjectFiles(PhaseFiles(CurrentPhase), CurrentPhase, attempt)]
    /\ total_files_generated' = total_files_generated + Len(PhaseFiles(CurrentPhase))
    /\ status' = "reviewing"
    /\ reviewer_calls' = [reviewer_calls EXCEPT ![CurrentPhase] = @ + 1]
    /\ pc' = "reviewing"
    /\ UNCHANGED aux_vars
    /\ UNCHANGED <<max_attempts, project_plan, current_phase_id, completed_phases,
                   total_attempts, total_errors, agents, is_running, should_stop,
                   phase_feedback, loop_vars, result, writer_calls, review_log,
                   passed_at, start_log, phase_returns, last_failure>>

\* the Writer failed: _execute_write_step returns (False, None), the cycle
\* returns False and the attempt is completed as failed
WriterFails(kind) ==
    /\ pc = "writing"
    /\ kind \in {"invalid_response", "error_payload", "no_project_files", "raised"}
    /\ phases' = complete_phase_on(phases, CurrentPhase, FALSE)
    /\ completed_phases' = completed_after(completed_phases, phases, CurrentPhase, FALSE)
    /\ review_log' = [review_log EXCEPT ![CurrentPhase] =
                          Append(@, [kind |-> "write_failed", feedback |-> <<>>])]
    /\ last_failure' = kind
    /\ attempt' = attempt + 1
    /\ pc' = "attempt"
    /\ UNCHANGED aux_vars
    /\ UNCHANGED <<max_attempts, status, project_plan, current_phase_id,
                   total_attempts, total_errors, total_files_generated, agents,
                   is_running, should_stop, phase_feedback, phase_idx,
                   overall_success, result, writer_calls, reviewer_calls,
                   passed_at, start_log, phase_returns>>

\* the Reviewer reported success: the phase is completed and the phase loop goes on
ReviewerPasses ==
    /\ pc = "reviewing"
    /\ phases' = complete_phase_on(phases, CurrentPhase, TRUE)
    /\ completed_phases' = completed_after(completed_phases, phases, CurrentPhase, TRUE)
    /\ review_log' = [review_log EXCEPT ![CurrentPhase] = <<>>]
    /\ passed_at' = [passed_at EXCEPT ![CurrentPhase] = attempt]
    /\ phase_returns' = [phase_returns EXCEPT ![CurrentPhase] = "True"]
    /\ phase_idx' = phase_idx + 1
    /\ pc' = "phases"
    /\ UNCHANGED aux_vars
    /\ UNCHANGED <<max_attempts, status, project_plan, current_phase_id,
                   total_attempts, total_errors, total_files_generated, agents,
                   is_running, should_stop, phase_feedback, attempt,
                   overall_success, result, writer_calls, reviewer_calls, start_log,
                   last_failure>>

\* the review step returned (False, feedback): the feedback is stored when
\* attempts remain and the attempt is completed as failed
ReviewStepFails(feedback, cause) ==
    /\ pc = "reviewing"
    /\ phase_feedback' = IF attempt < max_attempts
                         THEN store_feedback_for_retry(phase_feedback, CurrentPhase, feedback)
                         ELSE phase_feedback
    /\ phases' = complete_phase_on(phases, CurrentPhase, FALSE)
    /\ completed_phases' = completed_after(completed_phases, phases, CurrentPhase, FALSE)
    /\ review_log' = [review_log EXCEPT ![CurrentPhase] =
                          Append(@, [kind |-> "review_failed", feedback |-> feedback])]
    /\ last_failure' = cause
    /\ attempt' = attempt + 1
    /\ pc' = "attempt"
    /\ UNCHANGED aux_vars
    /\ UNCHANGED <<max_attempts, status, project_plan, current_phase_id,
                   total_attempts, total_errors, total_files_generated, agents,
                   is_running, should_stop, phase_idx, overall_success, result,
                   writer_calls, reviewer_calls, passed_at, start_log, phase_returns>>

\* the Reviewer returned (False, feedback)
ReviewerFails(text) == ReviewStepFails(ReviewFeedback(text, attempt), "review_failed")

\* the Reviewer raised: _execute_review_step turns the exception into feedback
ReviewerRaises(e) == ReviewStepFails(ReviewErrorFeedback(e), "review_raised")

\* end of _execute_workflow_phases: complete_workflow, summary, collected files
FinishWorkflow ==
    /\ pc = "finish"
    /\ status' = complete_workflow(overall_success)
    /\ result' = [success |-> overall_success,
                  summary |-> get_workflow_summary(status', phases, completed_phases,
                                  current_phase_id, total_attempts, total_errors,
                                  total_files_generated),
                  generated_files |-> collect_generated_files(phases)]
    /\ is_running' = FALSE
    /\ pc' = "done"
    /\ UNCHANGED aux_vars
    /\ UNCHANGED <<max_attempts, project_plan, phases, current_phase_id,
                   completed_phases, total_attempts, total_errors,
                   total_files_generated, agents, should_stop, phase_feedback,
                   loop_vars, obs_vars>>

\* asyncio.wait_for expires while the run is suspended in a collaborator call
Timeout ==
    /\ pc \in SuspensionPoints
    /\ status' = cancel_workflow
    /\ result' = [success |-> FALSE, error |-> "Workflow timeout",
                  summary |-> get_workflow_summary(status', phases, completed_phases,
                                  current_phase_id, total_attempts, total_errors,
                                  total_files_generated)]
    /\ is_running' = FALSE
    /\ pc' = "done"
    /\ UNCHANGED aux_vars
    /\ UNCHANGED <<max_attempts, project_plan, phases, current_phase_id,
                   completed_phases, total_attempts, total_errors,
                   total_files_generated, agents, should_stop, phase_feedback,
                   loop_vars, obs_vars>>

Next ==
    \/ \E name \in AgentNames : RegisterAgent(name)
    \/ StopWorkflow
    \/ ExecuteWorkflow
    \/ \E ids \in PlansFor(max_attempts) : PlannerReturnsPlan(ids)
    \/ \E kind \in {"invalid_response", "no_project_plan", "raised"} : PlannerFails(kind)
    \/ PhaseLoop
    \/ AttemptLoop
    \/ WriterReturnsFiles
    \/ \E kind \in {"invalid_response", "error_payload", "no_project_files", "raised"} :
            WriterFails(kind)
    \/ ReviewerPasses
    \/ \E text \in Feedbacks : ReviewerFails(text)
    \/ \E e \in ErrorMessages : ReviewerRaises(e)
    \/ FinishWorkflow
    \/ Timeout

Spec == Init /\ [][Next]_vars

(***************************************************************************)
(* SpecRepeat: the run of Spec on the plans the Planner can hand over.     *)
(* Neither _validate_plan_structure nor set_project_plan checks that the   *)
(* phase ids of a plan are distinct: a repeated id shares one PhaseState   *)
(* and is executed once per occurrence.                                    *)
(***************************************************************************)
PlansWithRepeats(max) ==
    {s \in UNION {[1..n -> PhaseIds] : n \in 0..MaxPhases} :
        Len(s) * max <= MaxTotalAttempts}

NextRepeat ==
    \/ \E name \in AgentNames : RegisterAgent(name)
    \/ StopWorkflow
    \/ ExecuteWorkflow
    \/ \E ids \in PlansWithRepeats(max_attempts) : PlannerReturnsPlan(ids)
    \/ \E kind \in {"invalid_response", "no_project_plan", "raised"} : PlannerFails(kind)
    \/ PhaseLoop
    \/ AttemptLoop
    \/ WriterReturnsFiles
    \/ \E kind \in {"invalid_response", "error_payload", "no_project_files", "raised"} :
            WriterFails(kind)
    \/ ReviewerPasses
    \/ \E text \in Feedbacks : ReviewerFails(text)
    \/ \E e \in ErrorMessages : ReviewerRaises(e)
    \/ FinishWorkflow
    \/ Timeout

SpecRepeat == Init /\ [][NextRepeat]_vars

TypeOK ==
    /\ max_attempts \in 0..(MaxAttemptsBound + 1)
    /\ status \in {"idle", "planning", "writing", "reviewing", "testing", "fixing",
                   "completed", "failed", "cancelled"}
    /\ pc \in {"idle", "planning", "plan_review", "phases", "attempt", "writing",
               "reviewing", "finish", "done", "exited", "api"}
    /\ should_stop \in BOOLEAN
    /\ is_running \in BOOLEAN

(***************************************************************************)
(* SpecState: a WorkflowState that holds a plan, driven by arbitrary       *)
(* start_phase / complete_phase calls                                      *)
(***************************************************************************)
InitState ==
    /\ max_attempts \in 0..MaxAttemptsBound
    /\ status = "idle"
    /\ \E ids \in PlansFor(max_attempts) :
          /\ Len(ids) >= 1
          /\ project_plan = [is_none |-> FALSE, phases |-> ids]
          /\ phases = set_project_plan_phases(EmptyMap, ids, max_attempts)
    /\ current_phase_id = NoPhase
    /\ completed_phases = <<>>
    /\ total_attempts = 0
    /\ total_errors = 0
    /\ total_files_generated = 0
    /\ agents = {}
    /\ is_running = FALSE
    /\ should_stop = FALSE
    /\ phase_feedback = EmptyMap
    /\ pc = "api"
    /\ phase_idx = 0
    /\ attempt = 0
    /\ overall_success = TRUE
    /\ result = NoResult
    /\ writer_calls = EmptyMap
    /\ reviewer_calls = EmptyMap
    /\ review_log = EmptyMap
    /\ passed_at = EmptyMap
    /\ start_log = <<>>
    /\ phase_returns = EmptyMap
    /\ last_failure = None
    /\ AuxInit

\* a call of WorkflowState.start_phase(p)
StartPhase(p) ==
    /\ pc = "api"
    /\ start_phase(p)
    /\ UNCHANGED aux_vars
    /\ UNCHANGED <<max_attempts, status, project_plan, completed_phases,
                   total_errors, total_files_generated, agents, is_running,
                   should_stop, phase_feedback, pc, loop_vars, result, obs_vars>>

\* a call of WorkflowState.complete_phase(p, success)
CompletePhase(p, success) ==
    /\ pc = "api"
    /\ Len(completed_phases) < MaxCompleted
    /\ phases' = complete_phase_on(phases, p, success)
    /\ completed_phases' = completed_after(completed_phases, phases, p, success)
    /\ UNCHANGED aux_vars
    /\ UNCHANGED <<max_attempts, status, project_plan, current_phase_id,
                   total_attempts, total_errors, total_files_generated, agents,
                   is_running, should_stop, phase_feedback, pc, loop_vars,
                   result, obs_vars>>

NextState ==
    \/ \E p \in PhaseIds \cup {UnknownPhase} : StartPhase(p)
    \/ \E p \in PhaseIds \cup {UnknownPhase}, success \in BOOLEAN : CompletePhase(p, success)

SpecState == InitState /\ [][NextState]_vars

(***************************************************************************)
(* SpecInteractive: the run of Spec with interactive_mode on (deep         *)
(* planning off): the plan of the Planner goes through                     *)
(* _interactive_plan_review before set_project_plan.                       *)
(* src/utils/interactive_reviewer.py: get_user_input turns end of input    *)
(* into "reject" and leaves the process with sys.exit(130) on Ctrl+C;      *)
(* handle_user_command loops on details, help and unknown commands itself. *)
(***************************************************************************)
\* largest number of modify commands tried in one review
MaxModifications == 1

\* a registered orchestrator constructed with interactive_mode=True
InitInteractive ==
    /\ max_attempts = 1
    /\ status = "idle"
    /\ project_plan = NoPlan
    /\ phases = EmptyMap
    /\ current_phase_id = NoPhase
    /\ completed_phases = <<>>
    /\ total_attempts = 0
    /\ total_errors = 0
    /\ total_files_generated = 0
    /\ agents = get_required_agents
    /\ is_running = FALSE
    /\ should_stop = FALSE
    /\ phase_feedback = EmptyMap
    /\ pc = "idle"
    /\ phase_idx = 0
    /\ attempt = 0
    /\ overall_success = TRUE
    /\ result = NoResult
    /\ writer_calls = EmptyMap
    /\ reviewer_calls = EmptyMap
    /\ review_log = EmptyMap
    /\ passed_at = EmptyMap
    /\ start_log = <<>>
    /\ phase_returns = EmptyMap
    /\ last_failure = None
    /\ max_iterations = 3
    /\ convergence_threshold = 80
    /\ DeepNotStarted
    /\ ParseNotStarted
    /\ interactive_mode = TRUE
    /\ ReviewNotStarted
    /\ PhaseReviewNotStarted

\* the Planner returned a plan: _interactive_plan_review is entered with it
PlannerReturnsPlanData(ids) ==
    /\ pc = "planning"
    /\ interactive_mode
    /\ ids # <<>>
    /\ original_plan' = ids
    /\ reviewed_plan' = ids
    /\ pc' = "plan_review"
    /\ UNCHANGED <<interactive_mode, review_end, modifications>>
    /\ UNCHANGED not_interactive_vars
    /\ UNCHANGED <<ws_vars, agents, is_running, should_stop, phase_feedback,
                   loop_vars, result, obs_vars>>

\* the rest of _execute_planning_phase once the review returned the plan ids:
\* the ProjectPlan is built and handed to set_project_plan
PlanAccepted(ids) ==
    /\ project_plan' = [is_none |-> FALSE, phases |-> ids]
    /\ phases' = set_project_plan_phases(phases, ids, max_attempts)
    /\ writer_calls' = [p \in Range(ids) |-> 0]
    /\ reviewer_calls' = [p \in Range(ids) |-> 0]
    /\ review_log' = [p \in Range(ids) |-> <<>>]
    /\ passed_at' = [p \in Range(ids) |-> 0]
    /\ phase_returns' = [p \in Range(ids) |-> None]
    /\ overall_success' = TRUE
    /\ phase_idx' = 1
    /\ pc' = "phases"
    /\ UNCHANGED <<max_attempts, status, current_phase_id, completed_phases,
                   total_attempts, total_errors, total_files_generated, agents,
                   is_running, should_stop, phase_feedback, attempt, result,
                   start_log, last_failure>>

\* the rest of the run once the review returned None: _execute_planning_phase
\* returns False
PlanRefused ==
    /\ status' = complete_workflow(FALSE)
    /\ result' = [success |-> FALSE, error |-> "Planning phase failed",
                  summary |-> get_workflow_summary(status', phases, completed_phases,
                                  current_phase_id, total_attempts, total_errors,
                                  total_files_generated)]
    /\ is_running' = FALSE
    /\ pc' = "done"
    /\ UNCHANGED <<max_attempts, project_plan, phases, current_phase_id,
                   completed_phases, total_attempts, total_errors,
                   total_files_generated, agents, should_stop, phase_feedback,
                   loop_vars, obs_vars>>

\* the user gave the command approve: current_plan is returned
UserApproves ==
    /\ pc = "plan_review"
    /\ review_end' = "approve"
    /\ PlanAccepted(reviewed_plan)
    /\ UNCHANGED <<interactive_mode, original_plan, reviewed_plan, modifications>>
    /\ UNCHANGED not_interactive_vars

\* the user gave the command reject, the input ended (get_user_input answers
\* "reject"), or KeyboardInterrupt was raised outside get_user_input: None
UserRejects(how) ==
    /\ pc = "plan_review"
    /\ how \in {"reject", "end_of_input", "interrupt"}
    /\ review_end' = how
    /\ PlanRefused
    /\ UNCHANGED <<interactive_mode, original_plan, reviewed_plan, modifications>>
    /\ UNCHANGED not_interactive_vars

\* Ctrl+C while get_user_input waits: sys.exit(130) ends the process
UserInterruptsInput ==
    /\ pc = "plan_review"
    /\ review_end' = "exit"
    /\ pc' = "exited"
    /\ UNCHANGED <<interactive_mode, original_plan, reviewed_plan, modifications>>
    /\ UNCHANGED not_interactive_vars
    /\ UNCHANGED <<ws_vars, agents, is_running, should_stop, phase_feedback,
                   phase_idx, attempt, overall_success, result, obs_vars>>

\* the user gave the command modify with a feedback: the Planner returns a new
\* plan, or the plan it was given (fallback_used), or the regeneration fails
\* and current_plan is kept
UserModifies(ids) ==
    /\ pc = "plan_review"
    /\ modifications < MaxModifications
    /\ ids # <<>>
    /\ modifications' = modifications + 1
    /\ reviewed_plan' = ids
    /\ UNCHANGED <<interactive_mode, original_plan, review_end>>
    /\ UNCHANGED not_interactive_vars
    /\ UNCHANGED run_vars

\* an exception inside the review loop: the handler returns plan_dict
ReviewRaises ==
    /\ pc = "plan_review"
    /\ review_end' = "error"
    /\ PlanAccepted(original_plan)
    /\ UNCHANGED <<interactive_mode, original_plan, reviewed_plan, modifications>>
    /\ UNCHANGED not_interactive_vars

NextInteractive ==
    \/ ExecuteWorkflow
    \/ \E ids \in PlansFor(max_attempts) : PlannerReturnsPlanData(ids)
    \/ \E kind \in {"invalid_response", "no_project_plan", "raised"} : PlannerFails(kind)
    \/ UserApproves
    \/ \E how \in {"reject", "end_of_input", "interrupt"} : UserRejects(how)
    \/ UserInterruptsInput
    \/ \E ids \in PlansFor(max_attempts) : UserModifies(ids)
    \/ ReviewRaises
    \/ PhaseLoop
    \/ AttemptLoop
    \/ WriterReturnsFiles
    \/ \E kind \in {"invalid_response", "error_payload", "no_project_files", "raised"} :
            WriterFails(kind)
    \/ ReviewerPasses
    \/ \E text \in Feedbacks : ReviewerFails(text)
    \/ \E e \in ErrorMessages : ReviewerRaises(e)
    \/ FinishWorkflow
    \/ Timeout

SpecInteractive == InitInteractive /\ [][NextInteractive]_vars

(***************************************************************************)
(* SpecReview: one call of ReviewerAgent._perform_phase_review             *)
(***************************************************************************)
InitReview ==
    /\ max_attempts = 3
    /\ OrchestratorInit
    /\ max_iterations = 3
    /\ convergence_threshold = 80
    /\ DeepNotStarted
    /\ ParseNotStarted
    /\ interactive_mode = FALSE
    /\ ReviewNotStarted
    /\ files_to_create \in FileSpecLists
    /\ project_files \in SUBSET FileNames
    /\ success_criteria \in {[i \in 1..n |-> i] : n \in 0..MaxCriteria}
    /\ criterion_idx = 0
    /\ review_results = <<>>
    /\ review_success = TRUE
    /\ evaluated = <<>>
    /\ last_evaluation = NoEvaluation
    /\ phase_review_result = NoResult
    /\ phase_review_pc = "file_check"

\* the check of the required files
CheckRequiredFiles ==
    /\ phase_review_pc = "file_check"
    /\ LET file_check_result == check_required_files(files_to_create, project_files)
       IN  /\ review_results' = Append(review_results, file_check_result)
           /\ review_success' = (review_success /\ file_check_result.passed)
    /\ criterion_idx' = 1
    /\ phase_review_pc' = "criteria"
    /\ UNCHANGED <<files_to_create, project_files, success_criteria, evaluated,
                   last_evaluation, phase_review_result>>
    /\ UNCHANGED not_phase_review_vars

\* one turn of the loop over the criteria
EvaluateCriterion(outcome) ==
    /\ phase_review_pc = "criteria"
    /\ ~criteria_loop_done(criterion_idx, success_criteria, review_success)
    /\ LET criterion_result ==
               check_success_criterion(success_criteria[criterion_idx], outcome)
       IN  /\ review_results' = Append(review_results, criterion_result)
           /\ review_success' = (review_success /\ criterion_result.passed)
    /\ evaluated' = Append(evaluated, success_criteria[criterion_idx])
    /\ last_evaluation' = outcome
    /\ criterion_idx' = criterion_idx + 1
    /\ UNCHANGED <<files_to_create, project_files, success_criteria,
                   phase_review_result, phase_review_pc>>
    /\ UNCHANGED not_phase_review_vars

\* after the loop: the feedback is generated when the review failed
FinishReview ==
    /\ phase_review_pc = "criteria"
    /\ criteria_loop_done(criterion_idx, success_criteria, review_success)
    /\ phase_review_result' =
           [success |-> review_success,
            feedback |-> IF review_success THEN [none |-> TRUE]
                         ELSE generate_feedback(review_results)]
    /\ phase_review_pc' = "done"
    /\ UNCHANGED <<files_to_create, project_files, success_criteria, criterion_idx,
                   review_results, review_success, evaluated, last_evaluation>>
    /\ UNCHANGED not_phase_review_vars

\* _generate_feedback raised: the handler returns (False, "Review error: ...")
FeedbackRaises ==
    /\ phase_review_pc = "criteria"
    /\ criteria_loop_done(criterion_idx, success_criteria, review_success)
    /\ ~review_success
    /\ phase_review_result' = [success |-> FALSE, feedback |-> "Review error"]
    /\ phase_review_pc' = "done"
    /\ UNCHANGED <<files_to_create, project_files, success_criteria, criterion_idx,
                   review_results, review_success, evaluated, last_evaluation>>
    /\ UNCHANGED not_phase_review_vars

NextReview ==
    \/ CheckRequiredFiles
    \/ \E outcome \in ModelOutcomes : EvaluateCriterion(outcome)
    \/ FinishReview
    \/ FeedbackRaises

SpecReview == InitReview /\ [][NextReview]_vars

(***************************************************************************)
(* SpecDeep: one run of execute_deep_planning_cycle                        *)
(***************************************************************************)
InitDeep ==
    /\ max_attempts = 3
    /\ OrchestratorInit
    /\ max_iterations \in 0..MaxIterations
    /\ convergence_threshold \in Thresholds
    /\ DeepNotStarted
    /\ ParseNotStarted
    /\ interactive_mode = FALSE
    /\ ReviewNotStarted
    /\ PhaseReviewNotStarted

\* execute_deep_planning_cycle up to the call of planner_agent.generate_plan
DeepStart ==
    /\ deep_pc = "idle"
    /\ current_iteration' = 0
    /\ plan_history' = <<>>
    /\ review_history' = <<>>
    /\ deep_pc' = "generate"
    /\ UNCHANGED <<not_deep_vars, max_iterations, convergence_threshold, current_plan,
                   best_plan, best_score, previous_score, current_score,
                   review_feedback, convergence_result, deep_result, improve_calls>>

\* generate_plan returned the initial plan: the loop starts, or with
\* max_iterations = 0 the result is built at once
GeneratePlanReturns ==
    /\ deep_pc = "generate"
    /\ current_plan' = InitialPlan
    /\ plan_history' = Append(plan_history, InitialPlan)
    /\ best_plan' = InitialPlan
    /\ best_score' = 0
    /\ previous_score' = 0
    /\ IF max_iterations >= 1
       THEN /\ current_iteration' = 1
            /\ deep_pc' = "review"
            /\ UNCHANGED deep_result
       ELSE /\ deep_pc' = "done"
            /\ deep_result' = deep_success(InitialPlan, 0, current_iteration,
                                           convergence_result)
            /\ UNCHANGED current_iteration
    /\ UNCHANGED <<not_deep_vars, max_iterations, convergence_threshold, review_history,
                   current_score, review_feedback, convergence_result, improve_calls>>

\* an awaited call raised outside the inner try: the outer handler returns
\* success False with the last plan of plan_history
DeepRaises ==
    /\ deep_pc' = "done"
    /\ deep_result' = deep_failure(plan_history)
    /\ UNCHANGED <<not_deep_vars, max_iterations, convergence_threshold,
                   current_iteration, plan_history, review_history, current_plan,
                   best_plan, best_score, previous_score, current_score,
                   review_feedback, convergence_result, improve_calls>>

GeneratePlanRaises == deep_pc = "generate" /\ DeepRaises

PlanReviewRaises == deep_pc = "review" /\ DeepRaises

\* the end of the loop by break: the result is built from the best plan
DeepBreak ==
    /\ deep_pc' = "done"
    /\ deep_result' = deep_success(best_plan, best_score, current_iteration,
                                   convergence_result)
    /\ UNCHANGED <<not_deep_vars, max_iterations, convergence_threshold,
                   current_iteration, plan_history, review_history, current_plan,
                   best_plan, best_score, previous_score, current_score,
                   review_feedback, convergence_result, improve_calls>>

\* review_plan returned success False
PlanReviewFails == deep_pc = "review" /\ DeepBreak

\* review_plan returned a review: assessment, best plan, convergence, and
\* either the result or the call of regenerate_plan_with_feedback
PlanReviewReturns(rf) ==
    /\ deep_pc = "review"
    /\ LET qa == assess_plan_quality(rf)
           cur == qa.score
           bp == IF is_better(cur, best_score) THEN current_plan ELSE best_plan
           bs == IF is_better(cur, best_score) THEN cur ELSE best_score
           conv == check_convergence(qa, cur, previous_score, current_iteration,
                                     convergence_threshold)
       IN  /\ review_feedback' = rf
           /\ review_history' = Append(review_history,
                                    [iteration |-> current_iteration,
                                     plan |-> current_plan, score |-> cur])
           /\ current_score' = cur
           /\ best_plan' = bp
           /\ best_score' = bs
           /\ convergence_result' = conv
           /\ IF conv # "continue" \/ current_iteration >= max_iterations
              THEN /\ deep_pc' = "done"
                   /\ deep_result' = deep_success(bp, bs, current_iteration, conv)
                   /\ UNCHANGED improve_calls
              ELSE /\ deep_pc' = "improve"
                   /\ improve_calls' = improve_calls + 1
                   /\ UNCHANGED deep_result
    /\ UNCHANGED <<not_deep_vars, max_iterations, convergence_threshold,
                   current_iteration, plan_history, current_plan, previous_score>>

\* regenerate_plan_with_feedback returned success True: with a new plan, or
\* with the original plan (PlannerAgent falls back to it)
ImproveReturns(fresh) ==
    /\ deep_pc = "improve"
    /\ current_plan' = IF fresh THEN <<current_iteration>> ELSE current_plan
    /\ plan_history' = Append(plan_history, current_plan')
    /\ previous_score' = current_score
    /\ current_iteration' = current_iteration + 1
    /\ deep_pc' = "review"
    /\ UNCHANGED <<not_deep_vars, max_iterations, convergence_threshold, review_history,
                   best_plan, best_score, current_score, review_feedback,
                   convergence_result, deep_result, improve_calls>>

\* regenerate_plan_with_feedback returned success False
ImproveDeclines == deep_pc = "improve" /\ DeepBreak

\* regenerate_plan_with_feedback raised
ImproveRaises ==
    /\ deep_pc = "improve"
    /\ IF improvement_failure_is_caught THEN DeepBreak ELSE DeepRaises

NextDeep ==
    \/ DeepStart
    \/ GeneratePlanReturns
    \/ GeneratePlanRaises
    \/ PlanReviewRaises
    \/ PlanReviewFails
    \/ \E rf \in ReviewFeedbacks : PlanReviewReturns(rf)
    \/ \E fresh \in BOOLEAN : ImproveReturns(fresh)
    \/ ImproveDeclines
    \/ ImproveRaises

SpecDeep == InitDeep /\ [][NextDeep]_vars

(***************************************************************************)
(* SpecParse: _parse_and_validate_plan on one response, followed by a      *)
(* second _validate_plan_structure on the plan it returned                 *)
(***************************************************************************)
Responses == UNION {[1..n -> ResponseTokens] : n \in 0..MaxResponseLen}

InitParse ==
    /\ max_attempts = 3
    /\ OrchestratorInit
    /\ max_iterations = 3
    /\ convergence_threshold = 80
    /\ DeepNotStarted
    /\ interactive_mode = FALSE
    /\ ReviewNotStarted
    /\ PhaseReviewNotStarted
    /\ plan_response \in Responses
    /\ json_content = <<>>
    /\ parsed_plan = EmptyMap
    /\ plan_dict = EmptyMap
    /\ parse_error = None
    /\ parse_pc = "check_refusal"

\* the test of the refusal indicators
CheckRefusal ==
    /\ parse_pc = "check_refusal"
    /\ IF is_refusal(plan_response)
       THEN /\ parse_error' = "Model refused to generate plan"
            /\ parse_pc' = "raised"
       ELSE /\ parse_pc' = "extract"
            /\ UNCHANGED parse_error
    /\ UNCHANGED <<not_parse_vars, plan_response, json_content, parsed_plan, plan_dict>>

\* _extract_json_from_response and the test that the content starts with a brace
ExtractJson ==
    /\ parse_pc = "extract"
    /\ json_content' = extract_json_from_response(plan_response)
    /\ IF ~starts_with_brace(json_content')
       THEN /\ parse_error' = "Response does not contain valid JSON structure"
            /\ parse_pc' = "raised"
       ELSE /\ parse_pc' = "loads"
            /\ UNCHANGED parse_error
    /\ UNCHANGED <<not_parse_vars, plan_response, parsed_plan, plan_dict>>

\* json.loads: an error, or the dictionary the members stand for
JsonLoads ==
    /\ parse_pc = "loads"
    /\ IF ~json_loads_ok(json_content)
       THEN /\ parse_error' = "Invalid JSON format"
            /\ parse_pc' = "raised"
            /\ UNCHANGED parsed_plan
       ELSE /\ parsed_plan' \in IF \E i \in 1..Len(json_content) : json_content[i] = "members"
                                THEN PlanDicts ELSE {EmptyMap}
            /\ parse_pc' = "validate"
            /\ UNCHANGED parse_error
    /\ UNCHANGED <<not_parse_vars, plan_response, json_content, plan_dict>>

\* _validate_plan_structure on the parsed plan, which is returned when valid
ValidatePlan ==
    /\ parse_pc = "validate"
    /\ LET validated == validate_plan_structure(parsed_plan)
       IN  IF validated.error # None
           THEN /\ parse_error' = validated.error
                /\ parse_pc' = "raised"
                /\ UNCHANGED plan_dict
           ELSE /\ plan_dict' = validated.plan
                /\ parse_pc' = "returned"
                /\ UNCHANGED parse_error
    /\ UNCHANGED <<not_parse_vars, plan_response, json_content, parsed_plan>>

\* _validate_plan_structure on a plan that was already validated
ValidateAgain ==
    /\ parse_pc = "returned"
    /\ LET validated == validate_plan_structure(plan_dict)
       IN  /\ plan_dict' = validated.plan
           /\ parse_error' = validated.error
    /\ parse_pc' = "revalidated"
    /\ UNCHANGED <<not_parse_vars, plan_response, json_content, parsed_plan>>

NextParse ==
    \/ CheckRefusal
    \/ ExtractJson
    \/ JsonLoads
    \/ ValidatePlan
    \/ ValidateAgain

SpecParse == InitParse /\ [][NextParse]_vars

(***************************************************************************)
(* Properties                                                              *)
(***************************************************************************)
\* position of phase p in the plan
PlanIndex(p) == CHOOSE i \in 1..Len(project_plan.phases) : project_plan.phases[i] = p

\* in every finished attempt of p so far the Writer returned files and the review failed
AllReviewsFailed(p) ==
    /\ passed_at[p] = 0
    /\ \A i \in 1..Len(review_log[p]) : review_log[p][i].kind = "review_failed"

\* C1: with max_attempts >= 1, no stop request, a Writer that always returns
\* files and a Reviewer that always fails, the phase execution never returns
\* True, never calls the Writer or the Reviewer more than max_attempts times,
\* and when it returns False both were called exactly max_attempts times and
\* the phase is FAILED with attempt_count = max_attempts; after max_attempts
\* failed attempts the loop is left with the value False.
C1_AlwaysFailingExhaustsAttempts ==
    \A p \in DOMAIN review_log :
        (max_attempts >= 1 /\ ~should_stop /\ AllReviewsFailed(p)) =>
            /\ writer_calls[p] <= max_attempts
            /\ reviewer_calls[p] <= max_attempts
            /\ phase_returns[p] # "True"
            /\ phase_returns[p] = "False" =>
                  /\ writer_calls[p] = max_attempts
                  /\ reviewer_calls[p] = max_attempts
                  /\ Len(review_log[p]) = max_attempts
                  /\ phases[p].status = "failed"
                  /\ phases[p].attempt_count = max_attempts
            /\ (Len(review_log[p]) = max_attempts /\ pc \in {"finish", "done"}) =>
                  phase_returns[p] = "False"

C1_Witness ==
    \E p \in DOMAIN review_log :
        /\ max_attempts >= 2
        /\ ~should_stop
        /\ AllReviewsFailed(p)
        /\ Len(review_log[p]) = max_attempts
        /\ phase_returns[p] = "False"

\* C2: when the review of attempt k of a phase succeeds, attempt k is the
\* last attempt of the phase: the execution returned True, the Writer was
\* called exactly k times, and the phase is COMPLETED with attempt_count = k.
C2_FirstSuccessEndsPhase ==
    \A p \in DOMAIN passed_at :
        passed_at[p] >= 1 =>
            /\ passed_at[p] <= max_attempts
            /\ phase_returns[p] = "True"
            /\ writer_calls[p] = passed_at[p]
            /\ reviewer_calls[p] <= passed_at[p]
            /\ phases[p].status = "completed"
            /\ phases[p].attempt_count = passed_at[p]

C2_Witness ==
    \E p \in DOMAIN passed_at :
        /\ max_attempts = 3
        /\ passed_at[p] = 2
        /\ writer_calls[p] = 2
        /\ pc = "done"

\* C3 as stated: for every max_attempts, attempt_count never decreases, never
\* exceeds max_attempts, and a FAILED phase at max_attempts cannot be retried.
C3_Original ==
    [][\A p \in DOMAIN phases :
          /\ phases'[p].attempt_count >= phases[p].attempt_count
          /\ phases'[p].attempt_count <= phases'[p].max_attempts
          /\ (phases'[p].status = "failed"
                /\ phases'[p].attempt_count = phases'[p].max_attempts)
             => ~can_retry(phases'[p])]_vars

\* C3 (amended): on a WorkflowState with max_attempts >= 1, after any sequence
\* of start_phase and complete_phase calls attempt_count never decreases and
\* never exceeds max_attempts, and a FAILED phase with attempt_count =
\* max_attempts has can_retry = false.
C3_AttemptCountBounded ==
    [][max_attempts >= 1 =>
          \A p \in DOMAIN phases :
              /\ phases'[p].attempt_count >= phases[p].attempt_count
              /\ phases'[p].attempt_count <= phases'[p].max_attempts
              /\ (phases'[p].status = "failed"
                    /\ phases'[p].attempt_count = phases'[p].max_attempts)
                 => ~can_retry(phases'[p])]_vars

C3_Witness ==
    \E p \in DOMAIN phases :
        /\ pc = "api"
        /\ max_attempts >= 2
        /\ phases[p].status = "failed"
        /\ phases[p].attempt_count = max_attempts

\* C4: start_phase is called on the phases in the order of the plan, and a
\* phase that was started (start_phase or a Writer call) has only COMPLETED
\* phases before it in the plan.
C4_PhasesStartInPlanOrder ==
    /\ \A i \in 1..(Len(start_log) - 1) :
          PlanIndex(start_log[i]) <= PlanIndex(start_log[i + 1])
    /\ \A q \in DOMAIN phases :
          (phases[q].attempt_count > 0 \/ writer_calls[q] > 0) =>
              \A r \in DOMAIN phases :
                  PlanIndex(r) < PlanIndex(q) => phases[r].status = "completed"

C4_Witness ==
    /\ Len(project_plan.phases) = 2
    /\ writer_calls[project_plan.phases[2]] > 0
    /\ Len(start_log) >= 3

\* C5: once a phase is FAILED with attempt_count = max_attempts, every later
\* phase of the plan is PENDING with attempt_count 0 and without any Writer
\* call, the run is not suspended in a collaborator call any more, and when
\* it has returned the workflow status is FAILED and success is False.
C5_TerminalFailureStopsWorkflow ==
    \A p \in DOMAIN phases :
        (phases[p].status = "failed" /\ phases[p].attempt_count = max_attempts) =>
            /\ \A q \in DOMAIN phases :
                  PlanIndex(q) > PlanIndex(p) =>
                      /\ phases[q].status = "pending"
                      /\ phases[q].attempt_count = 0
                      /\ writer_calls[q] = 0
            /\ pc \in {"attempt", "finish", "done"}
            /\ pc = "done" => (status = "failed" /\ result.success = FALSE)

C5_Witness ==
    /\ pc = "done"
    /\ Len(project_plan.phases) = 2
    /\ phases[project_plan.phases[1]].status = "failed"
    /\ phases[project_plan.phases[1]].attempt_count = max_attempts
    /\ phases[project_plan.phases[2]].status = "pending"

\* C6: after max_attempts attempts of a phase that all ended in a failed
\* review, the feedback stored for the phase is exactly the feedback returned
\* by the review of attempt max_attempts - 1 (nothing is stored when
\* max_attempts = 1): not the feedback of the last attempt and not a
\* concatenation with earlier feedback.
C6_StoredFeedbackIsPenultimate ==
    \A p \in DOMAIN review_log :
        (max_attempts >= 1 /\ Len(review_log[p]) = max_attempts /\ AllReviewsFailed(p)) =>
            IF max_attempts = 1
            THEN p \notin DOMAIN phase_feedback
            ELSE /\ p \in DOMAIN phase_feedback
                 /\ phase_feedback[p] = review_log[p][max_attempts - 1].feedback

C6_Witness ==
    \E p \in DOMAIN review_log :
        /\ max_attempts = 3
        /\ Len(review_log[p]) = 3
        /\ AllReviewsFailed(p)
        /\ p \in DOMAIN phase_feedback
        /\ phase_feedback[p] = review_log[p][2].feedback
        /\ review_log[p][1].feedback # review_log[p][2].feedback
        /\ review_log[p][3].feedback # review_log[p][2].feedback

\* C7: a step in which the timeout expires at a suspension point lets
\* execute_workflow return success = False with the summary, sets the
\* workflow status to CANCELLED, and changes no phase state: statuses,
\* attempt counts, files and the completed list are those at expiry, and
\* the summary reports them.
C7_TimeoutCancelsWithoutRollback ==
    [][(pc \in {"planning", "writing", "reviewing"} /\ pc' = "done"
            /\ result'.error = "Workflow timeout") =>
          /\ result'.success = FALSE
          /\ "summary" \in DOMAIN result'
          /\ status' = "cancelled"
          /\ result'.summary.status = "cancelled"
          /\ phases' = phases
          /\ completed_phases' = completed_phases
          /\ result'.summary.phases_completed = Len(completed_phases)
          /\ \A p \in DOMAIN phases :
                /\ result'.summary.details[p].status = phases[p].status
                /\ result'.summary.details[p].attempts = phases[p].attempt_count]_vars

C7_Witness ==
    /\ pc = "done"
    /\ status = "cancelled"
    /\ result.error = "Workflow timeout"
    /\ \E p, q \in DOMAIN phases :
          /\ phases[p].status = "completed"
          /\ ~phases[p].generated_files.is_none
          /\ phases[q].status = "retrying"
          /\ phases[q].attempt_count = 2

AllowedStatusMoves ==
    {<<"idle", "planning">>,
     <<"planning", "writing">>, <<"planning", "reviewing">>,
     <<"writing", "reviewing">>, <<"reviewing", "writing">>,
     <<"planning", "completed">>, <<"planning", "failed">>, <<"planning", "cancelled">>,
     <<"writing", "completed">>, <<"writing", "failed">>, <<"writing", "cancelled">>,
     <<"reviewing", "completed">>, <<"reviewing", "failed">>, <<"reviewing", "cancelled">>}

\* C8: every change of the workflow status is a move of
\* IDLE -> PLANNING -> (WRITING <-> REVIEWING)* -> COMPLETED | FAILED | CANCELLED,
\* and a status COMPLETED, FAILED or CANCELLED is never changed by a later step.
C8_StatusMovesForward ==
    [][/\ status' # status => <<status, status'>> \in AllowedStatusMoves
       /\ status \in {"completed", "failed", "cancelled"} => status' = status]_vars

C8_Witness ==
    /\ pc = "done"
    /\ status = "completed"
    /\ \E p \in DOMAIN writer_calls : reviewer_calls[p] >= 2

\* C9 as stated: every result of execute_workflow with success = False holds
\* the summary and the generated files.
C9_FailureResultHasSummaryAndFiles ==
    (pc = "done" /\ result.success = FALSE) =>
        /\ "summary" \in DOMAIN result
        /\ "generated_files" \in DOMAIN result

\* the phases whose generated files contain the file name f
Producers(f) ==
    {p \in DOMAIN phases :
        \E i \in 1..Len(phases[p].generated_files.files) :
            phases[p].generated_files.files[i].filename = f}

\* C10 as stated: a file name produced by two phases has exactly one entry
\* in the collected output, and the entry is the one of the producing phase
\* that comes last in the plan.
C10_LaterPhaseWins ==
    (pc = "done" /\ "generated_files" \in DOMAIN result) =>
        \A f \in FileNames :
            Cardinality(Producers(f)) >= 2 =>
                /\ Cardinality({i \in 1..Len(result.generated_files) :
                                  result.generated_files[i].filename = f}) = 1
                /\ \A i \in 1..Len(result.generated_files) :
                      result.generated_files[i].filename = f =>
                          \A p \in Producers(f) :
                              PlanIndex(p) <= PlanIndex(result.generated_files[i].phase_id)

(***************************************************************************)
(* Properties of the deep-planning cycle (SpecDeep)                        *)
(***************************************************************************)
\* the reviews of the cycle that reviewed plan pl
ReviewsOf(pl) == {i \in 1..Len(review_history) : review_history[i].plan = pl}

\* review i has the highest score of all reviews of the cycle
HasHighestScore(i) ==
    \A j \in 1..Len(review_history) :
        review_history[j].score <= review_history[i].score

\* C11: when the cycle has returned and at least one review succeeded, a
\* successful result names as final_plan a plan that was reviewed, with
\* best_score the highest score of all reviews; and whenever the returned
\* final_plan was reviewed, one of its reviews has the highest score of all
\* reviews, so that no reviewed plan scored strictly higher.
C11_BestPlanIsReturned ==
    (deep_pc = "done" /\ review_history # <<>>) =>
        /\ deep_result.success =>
              /\ ReviewsOf(deep_result.final_plan) # {}
              /\ \E i \in 1..Len(review_history) :
                    HasHighestScore(i) /\ deep_result.best_score = review_history[i].score
        /\ ReviewsOf(deep_result.final_plan) # {} =>
              \E i \in ReviewsOf(deep_result.final_plan) : HasHighestScore(i)

C11_Witness ==
    /\ deep_pc = "done"
    /\ deep_result.success
    /\ Len(review_history) = 3
    /\ review_history[1].score = 80
    /\ review_history[2].score = 90
    /\ review_history[3].score = 60
    /\ review_history[3].plan = <<2>>
    /\ deep_result.final_plan = <<1>>

\* C12: a review whose score reaches convergence_threshold is the last
\* review of the cycle: the cycle has returned with convergence type
\* quality_threshold, every plan obtained was reviewed (no revised plan was
\* requested after it), and when its score is higher than every earlier
\* score the reviewed plan is the final_plan.
C12_ThresholdStopsTheLoop ==
    \A i \in 1..Len(review_history) :
        review_history[i].score >= convergence_threshold =>
            /\ i = Len(review_history)
            /\ deep_pc = "done"
            /\ deep_result.success
            /\ deep_result.convergence_info = "quality_threshold"
            /\ deep_result.total_iterations = i
            /\ improve_calls = i - 1
            /\ Len(plan_history) = i
            /\ (\A j \in 1..(i - 1) : review_history[j].score < review_history[i].score)
                  => deep_result.final_plan = review_history[i].plan

C12_Witness ==
    /\ deep_pc = "done"
    /\ convergence_threshold = 80
    /\ max_iterations = 3
    /\ Len(review_history) = 2
    /\ review_history[1].score = 60
    /\ review_history[2].score = 90
    /\ deep_result.final_plan = <<1>>

C14_ImprovementFailureReturnsBest ==
    [][(deep_pc = "improve" /\ deep_pc' = "done") =>
          /\ deep_result'.success
          /\ deep_result'.total_iterations = current_iteration
          /\ deep_result'.final_plan = best_plan
          /\ \E i \in ReviewsOf(best_plan) : HasHighestScore(i)
          /\ plan_history' = plan_history
          /\ review_history' = review_history]_vars

C14_Witness ==
    /\ deep_pc = "done"
    /\ deep_result.success
    /\ improve_calls = 2
    /\ Len(plan_history) = 2
    /\ Len(review_history) = 2
    /\ deep_result.final_plan = <<1>>

(***************************************************************************)
(* Properties of the plan parsing (SpecParse)                              *)
(***************************************************************************)
\* the response holds one of the eight refusal phrases, in some casing
ContainsRefusalPhrase ==
    \E i \in 1..Len(plan_response) :
        plan_response[i] \in refusal_indicators \cup RecasedPhrases

\* C15: a response that holds a refusal phrase in any casing is rejected
\* with the refusal error and with no other error, and neither the JSON
\* extraction nor the JSON parsing is ever performed on it.
C15_RefusalIsRejectedFirst ==
    (parse_pc # "idle" /\ ContainsRefusalPhrase) =>
        /\ parse_pc \in {"check_refusal", "raised"}
        /\ parse_pc = "raised" => parse_error = "Model refused to generate plan"
        /\ parse_pc = "check_refusal" => parse_error = None
        /\ json_content = <<>>
        /\ parsed_plan = EmptyMap

C15_Witness ==
    /\ parse_pc = "raised"
    /\ plan_response = <<"lbrace", "UNFORTUNATELY", "rbrace">>
    /\ json_loads_ok(extract_json_from_response(plan_response))
    /\ parse_error = "Model refused to generate plan"

\* the plan after holds the phases of the plan before, in the same number
\* and with the same phase_ids; a phase that declared files_to_create keeps
\* it, and a phase that declared only files has files_to_create equal to files
IsNormalizationOf(before, after) ==
    /\ Len(after["phases"]) = Len(before["phases"])
    /\ \A i \in 1..Len(before["phases"]) :
          LET b == before["phases"][i]
              a == after["phases"][i]
          IN  /\ a["phase_id"] = b["phase_id"]
              /\ "files_to_create" \in DOMAIN a
              /\ "files_to_create" \in DOMAIN b
                    => a["files_to_create"] = b["files_to_create"]
              /\ ("files" \in DOMAIN b /\ "files_to_create" \notin DOMAIN b)
                    => a["files_to_create"] = b["files"]

\* C16: the validated plan is the normalization of the parsed plan, and a
\* second validation of it succeeds and changes nothing, so that the same
\* holds after two normalizations.
C16_NormalizationIsIdempotent ==
    [][/\ parse_pc' = "returned" => IsNormalizationOf(parsed_plan', plan_dict')
       /\ (parse_pc = "returned" /\ parse_pc' = "revalidated") =>
             /\ parse_error' = None
             /\ plan_dict' = plan_dict
             /\ IsNormalizationOf(parsed_plan', plan_dict')]_vars

C16_Witness ==
    /\ parse_pc = "revalidated"
    /\ Len(parsed_plan["phases"]) = 2
    /\ DOMAIN parsed_plan["phases"][1] = required_phase_keys \cup {"files"}
    /\ DOMAIN parsed_plan["phases"][2] = required_phase_keys \cup {"files", "files_to_create"}
    /\ plan_dict["phases"][1]["files_to_create"] = <<"a.txt">>
    /\ plan_dict["phases"][2]["files_to_create"] = <<"b.txt">>


\* a step in which the Writer call of the running attempt ends in a failure
WriterFailureStep ==
    /\ pc = "writing"
    /\ pc' = "attempt"

\* C17 as stated: when the Writer fails in an attempt, the Reviewer is not
\* invoked in that attempt, the attempt is marked failed, and the failure is
\* recorded as an error of the phase: the error list of the phase and
\* total_errors both grow by one.
C17_WriterFailureIsRecorded ==
    [][WriterFailureStep =>
          /\ reviewer_calls' = reviewer_calls
          /\ phases'[CurrentPhase].status = "failed"
          /\ Len(phases'[CurrentPhase].errors) = Len(phases[CurrentPhase].errors) + 1
          /\ total_errors' = total_errors + 1]_vars

\* a step in which the Writer or the Reviewer raised during the running attempt
CollaboratorRaisesStep ==
    /\ pc \in {"writing", "reviewing"}
    /\ last_failure' \in {"raised", "review_raised"}

\* C18 as stated: an exception raised by the Writer or the Reviewer during an
\* attempt does not leave the phase execution; it is recorded as an error
\* string of the phase, the attempt ends as complete_phase(success=False)
\* leaves it, and the attempt loop is entered again.
C18_CollaboratorExceptionIsRecorded ==
    [][CollaboratorRaisesStep =>
          /\ pc' = "attempt"
          /\ phases' \in {complete_phase_on(
                              [phases EXCEPT ![CurrentPhase].errors = Append(@, e)],
                              CurrentPhase, FALSE) : e \in ErrorMessages \cup {"raised"}}
          /\ total_errors' = total_errors + 1]_vars

\* C20 as stated: on an orchestrator in default mode on which exactly the
\* agents planner, writer, tester and fixing have been registered,
\* validate_agents() returns True.
C20_PhaseOneAgentsAreValid ==
    agents = {"planner", "writer", "tester", "fixing"} => validate_agents(agents)

\* a step of the attempt loop in which start_phase returns False
StartPhaseRefusedStep ==
    /\ pc = "attempt"
    /\ ~attempt_loop_done(attempt, max_attempts, should_stop)
    /\ ~start_phase_ok(phases, CurrentPhase)

\* C19 as stated: when start_phase returns False for the phase, the phase
\* execution reports failure at once: the Writer and the Reviewer are not
\* called, complete_phase is not applied, and attempt_count and
\* total_attempts keep their values.
C19_RefusedStartEndsThePhase ==
    [][StartPhaseRefusedStep =>
          /\ phase_returns'[CurrentPhase] = "False"
          /\ pc' \in {"phases", "finish"}
          /\ writer_calls' = writer_calls
          /\ reviewer_calls' = reviewer_calls
          /\ phases' = phases
          /\ completed_phases' = completed_phases
          /\ total_attempts' = total_attempts]_vars

\* the condition under which the phase may be started: a known id whose phase
\* is PENDING, or FAILED with attempts left
Startable(p) ==
    /\ p \in DOMAIN phases
    /\ \/ phases[p].status = "pending"
       \/ /\ phases[p].status = "failed"
          /\ phases[p].attempt_count < phases[p].max_attempts

\* C21: start_phase(id) returns False and leaves the phase, current_phase_id
\* and total_attempts as they were when id is unknown or the phase is neither
\* PENDING nor FAILED with attempts left; otherwise it returns True, adds
\* exactly one to attempt_count and to total_attempts, sets the start time,
\* and sets the status to IN_PROGRESS after PENDING and to RETRYING after FAILED.
C21_StartPhaseEffect ==
    [][\A p \in PhaseIds \cup {UnknownPhase} :
          StartPhase(p) =>
             /\ start_phase_ok(phases, p) <=> Startable(p)
             /\ IF Startable(p)
                THEN /\ phases'[p].attempt_count = phases[p].attempt_count + 1
                     /\ total_attempts' = total_attempts + 1
                     /\ phases'[p].status =
                            IF phases[p].status = "pending" THEN "in_progress"
                            ELSE "retrying"
                     /\ phases'[p].start_time # None
                     /\ current_phase_id' = p
                     /\ \A q \in DOMAIN phases \ {p} : phases'[q] = phases[q]
                ELSE UNCHANGED <<phases, current_phase_id, total_attempts>>]_vars

\* a phase was started again after a failure while another phase has used up
\* its attempts, so that a further start_phase on it is refused
C21_Witness ==
    /\ pc = "api"
    /\ \E p, q \in DOMAIN phases :
          /\ phases[p].status = "retrying"
          /\ phases[p].attempt_count = 2
          /\ phases[q].status = "failed"
          /\ ~Startable(q)

\* C22 as stated: COMPLETED is a terminal phase status; no start_phase or
\* complete_phase call changes the status or the attempt_count of a phase
\* that is COMPLETED.
C22_CompletedIsTerminal ==
    [][\A p \in DOMAIN phases :
          phases[p].status = "completed" =>
             /\ phases'[p].status = "completed"
             /\ phases'[p].attempt_count = phases[p].attempt_count]_vars

\* the state right after set_project_plan in a run
PlanJustSet ==
    /\ pc = "phases"
    /\ phase_idx = 1
    /\ ~project_plan.is_none

\* C23 as stated: after set_project_plan(plan) on a fresh WorkflowState the
\* phase map holds one PhaseState per entry of plan.phases, so its size is
\* len(plan.phases), and each is PENDING with attempt_count 0 and the
\* max_attempts of the workflow.
C23_OnePhaseStatePerPlanEntry ==
    PlanJustSet =>
        /\ Cardinality(DOMAIN phases) = Len(project_plan.phases)
        /\ DOMAIN phases = Range(project_plan.phases)
        /\ \A p \in DOMAIN phases :
              /\ phases[p].status = "pending"
              /\ phases[p].attempt_count = 0
              /\ phases[p].max_attempts = max_attempts

\* C25 as stated: whenever execute_workflow returns success == True (workflow
\* status COMPLETED), every phase of the plan has status COMPLETED, also in
\* the runs in which stop_workflow() was called before or during the phases.
C25_SuccessMeansAllPhasesCompleted ==
    (pc = "done" /\ result.success /\ status = "completed") =>
        \A i \in 1..Len(project_plan.phases) :
            phases[project_plan.phases[i]].status = "completed"

\* C26 as stated: in every reachable state of a WorkflowState,
\* completed_phases has no duplicate and holds exactly the ids of the phases
\* with status COMPLETED, progress_percentage is within 0..100, and
\* is_workflow_complete() is true exactly when every phase of the plan is
\* COMPLETED.
C26_CompletedListMatchesStatus ==
    /\ \A i, j \in 1..Len(completed_phases) :
          i # j => completed_phases[i] # completed_phases[j]
    /\ Range(completed_phases) =
          {p \in DOMAIN phases : phases[p].status = "completed"}
    /\ progress_percentage(project_plan, completed_phases) \in 0..100
    /\ is_workflow_complete(project_plan, completed_phases) <=>
          /\ ~project_plan.is_none
          /\ \A p \in DOMAIN phases : phases[p].status = "completed"

C29_PhasesOnlyAfterApproval ==
    (interactive_mode /\ start_log # <<>>) =>
        /\ review_end = "approve"
        /\ project_plan.phases = reviewed_plan

\* the step in which _check_convergence is evaluated for a review
ConvergenceCheckedStep ==
    /\ deep_pc = "review"
    /\ Len(review_history') = Len(review_history) + 1

\* the convergence type the ordered rules give for the review just received:
\* quality_threshold, then reviewer_approval, then minimal_improvement from
\* the second iteration on, then issues_resolved at 8.5 without critical or
\* high issue
FirstMatchingRule ==
    LET rf  == review_feedback'
        cur == current_score'
        approved == /\ rf.recommendation = "approve"
                    /\ rf.critical_issues = 0
                    /\ rf.high_issues <= 2
    IN  CASE cur >= convergence_threshold -> "quality_threshold"
          [] cur < convergence_threshold /\ approved -> "reviewer_approval"
          [] /\ cur < convergence_threshold
             /\ ~approved
             /\ current_iteration > 1
             /\ cur - previous_score < 5 -> "minimal_improvement"
          [] /\ cur < convergence_threshold
             /\ ~approved
             /\ ~(current_iteration > 1 /\ cur - previous_score < 5)
             /\ rf.critical_issues = 0
             /\ rf.high_issues = 0
             /\ cur >= 85 -> "issues_resolved"
          [] OTHER -> "continue"

\* C30: the convergence rules are tried in the order quality_threshold,
\* reviewer_approval, minimal_improvement (from the second iteration on),
\* issues_resolved, and the first match decides; with a convergence
\* threshold of at most 8.5 the type issues_resolved is never reported.
C30_ConvergenceRuleOrder ==
    [][ConvergenceCheckedStep =>
          /\ convergence_result' = FirstMatchingRule
          /\ convergence_threshold <= 85 => convergence_result' # "issues_resolved"]_vars

\* with the orchestrator's threshold 8.0, a review without critical or high
\* issue, not approved, with a score of at least 8.5: reported as quality_threshold
C30_Witness ==
    /\ deep_pc = "done"
    /\ convergence_threshold = 80
    /\ review_feedback # NoReview
    /\ review_feedback.recommendation # "approve"
    /\ review_feedback.critical_issues = 0
    /\ review_feedback.high_issues = 0
    /\ current_score >= 85
    /\ convergence_result = "quality_threshold"

\* the required files that are not in the bundle
MissingFiles ==
    {files_to_create[i].name : i \in 1..Len(files_to_create)} \ project_files

C28_EvaluatorErrorNeverPasses ==
    last_evaluation.kind = "raises" =>
        ~review_results[Len(review_results)].passed

====
